---- MODULE Spec2Model ----
(***************************************************************************)
(* A model of the data-acquisition and validation scripts of               *)
(* project-argus.  Every script is an entry point of its own               *)
(* (`if __name__ == "__main__"`), so a behaviour of the model is one run   *)
(* of one script: Init picks the script (variable prog) and the script's   *)
(* actions are enabled for that value of prog only.                        *)
(*                                                                         *)
(*   prog = "acquire"    src/scripts/acquire_real_data.py                  *)
(*   prog = "pipeline"   src/scripts/validate_data.py                      *)
(*   prog = "fetch"      one call of validate_data.fetch_stock_data        *)
(*   prog = "alt"        src/scripts/try_alternative_sources.py            *)
(*   prog = "alpha"      src/scripts/alphavantage_downloader.py            *)
(*   prog = "normalize"  load_manual_csv.normalize_csv on one file         *)
(*   prog = "schema"     the life of one validators.StockDataSchema        *)
(*   prog = "checker"    the life of one validators.DataQualityChecker     *)
(*   prog = "detect"     load_manual_csv.detect_csv_format on two frames   *)
(*   prog = "selenium"   src/scripts/selenium_scraper.py                   *)
(*   prog = "final"      professional_scraper.final_data_acquisition       *)
(*   prog = "load"       load_manual_csv.load_manual_csvs                  *)
(***************************************************************************)
EXTENDS Integers, Sequences, FiniteSets, TLC

VARIABLES
    prog,            \* which script this run executes
    acq_pc,          \* acquire_real_data: position in the function
    acq_i,           \* acquire_real_data: index of the stock of the for loop
    acq_data,        \* acquire_real_data: local `data`
    acq_method,      \* acquire_real_data: local `method`
    acq_results,     \* acquire_real_data: local `results` (returned at the end)
    acq_summary,     \* acquisition_summary.txt as written by acquire_real_data
    acq_calls,       \* the adapter invocations of the run, in order
    ft_pc,           \* fetch_stock_data: position in the function
    ft_max_retries,  \* fetch_stock_data: parameter max_retries
    ft_attempt,      \* fetch_stock_data: loop variable `attempt`
    ft_calls,        \* the calls of stock.history(...) of this invocation, in order
    ft_ret,          \* fetch_stock_data: the frame returned or the error raised
    pl_pc,           \* validate_data_pipeline: position in the function
    pl_i,            \* validate_data_pipeline: index of the ticker of the for loop
    pl_results,      \* validate_data_pipeline: local `results` (returned at the end)
    pl_all_data,     \* validate_data_pipeline: local `all_data`
    pl_log,          \* how the try body of each ticker processed so far ended
    alt_pc,          \* try_alternative_sources.main: position in the function
    alt_i,           \* try_alternative_sources.main: index of the stock of the for loop
    alt_successful,  \* try_alternative_sources.main: local `successful`
    alt_files,       \* the files main has written under data/raw
    alt_ret,         \* try_alternative_sources.main: the value returned
    alt_calls,       \* the calls of try_stooq of the run, in order
    av_pc,           \* alphavantage main: position in the function
    av_i,            \* alphavantage main: loop variable `i` (0-based)
    av_clock,        \* wall-clock time in seconds since main started
    av_requests,     \* the times at which main issued its requests, in order
    av_successful,   \* alphavantage main: len(successful)
    av_failed,       \* alphavantage main: len(failed)
    nz_pc,           \* normalize_csv: position in the function
    nz_file,         \* normalize_csv: the CSV file at file_path
    nz_out,          \* normalize_csv: the value returned
    nz_returned,     \* what the calls of normalize_csv on the file returned, in order
    sc_obj,          \* the StockDataSchema instance, once constructed
    sc_last,         \* how the last construction or assignment ended
    qc_data,         \* DataQualityChecker: self.data
    qc_pads,         \* whether the installed pandas fills NaN forward in pct_change
    qc_now,          \* datetime.now(), in half days
    qc_ticks,        \* how many half days passed since the first run_all_checks
    qc_report,       \* DataQualityChecker: self.report
    qc_calls,        \* the calls of run_all_checks so far: when, and what came back
    dt_frames,       \* the column names of the frames detect_csv_format is called on
    dt_out,          \* detect_csv_format: the values returned, in call order
    sl_pc,           \* selenium_scraper.main: position in the function
    sl_i,            \* selenium_scraper.main: index of the ticker of the for loop
    sl_successful,   \* selenium_scraper.main: local `successful`
    sl_pending,      \* selenium_scraper.main: the exception on its way out through finally
    sl_ret,          \* selenium_scraper.main: the value returned
    sl_log,          \* what was done with browser sessions during the run, in order
    fa_pc,           \* final_data_acquisition: position in the function
    fa_ret,          \* final_data_acquisition: the pair returned
    fa_log,          \* the functions final_data_acquisition has invoked, in order
    lm_pc,           \* load_manual_csvs: position in the function
    lm_dir,          \* whether data/raw/manual exists
    lm_files,        \* load_manual_csvs: csv_files, the files of data/raw/manual
    lm_combined,     \* load_manual_csvs: combined_df
    lm_qc,           \* the tickers the quality check loop went through, and how each ended
    lm_error,        \* the exception load_manual_csvs ended with
    lm_ret           \* load_manual_csvs: the value returned

acq_vars == <<acq_pc, acq_i, acq_data, acq_method, acq_results, acq_summary, acq_calls>>

ft_vars == <<ft_pc, ft_max_retries, ft_attempt, ft_calls, ft_ret>>

pl_vars == <<pl_pc, pl_i, pl_results, pl_all_data, pl_log>>

alt_vars == <<alt_pc, alt_i, alt_successful, alt_files, alt_ret, alt_calls>>

av_vars == <<av_pc, av_i, av_clock, av_requests, av_successful, av_failed>>

nz_vars == <<nz_pc, nz_file, nz_out, nz_returned>>

sc_vars == <<sc_obj, sc_last>>

qc_vars == <<qc_data, qc_pads, qc_now, qc_ticks, qc_report, qc_calls>>

dt_vars == <<dt_frames, dt_out>>

sl_vars == <<sl_pc, sl_i, sl_successful, sl_pending, sl_ret, sl_log>>

fa_vars == <<fa_pc, fa_ret, fa_log>>

lm_vars == <<lm_pc, lm_dir, lm_files, lm_combined, lm_qc, lm_error, lm_ret>>

vars == <<prog, acq_vars, ft_vars, pl_vars, alt_vars, av_vars, nz_vars, sc_vars, qc_vars, dt_vars, sl_vars, fa_vars, lm_vars>>

\* a step of acquire_real_data: no other script's state changes
RunsAcquire ==
    prog = "acquire" /\ UNCHANGED <<prog, ft_vars, pl_vars, alt_vars, av_vars, nz_vars, sc_vars, qc_vars, dt_vars, sl_vars, fa_vars, lm_vars>>

\* a step of fetch_stock_data, called alone or by validate_data_pipeline
RunsFetch ==
    prog \in {"fetch", "pipeline"} /\ UNCHANGED <<prog, acq_vars, alt_vars, av_vars, nz_vars, sc_vars, qc_vars, dt_vars, sl_vars, fa_vars, lm_vars>>

\* a step of validate_data_pipeline outside fetch_stock_data
RunsPipeline == prog = "pipeline" /\ UNCHANGED <<prog, acq_vars, alt_vars, av_vars, nz_vars, sc_vars, qc_vars, dt_vars, sl_vars, fa_vars, lm_vars>>

\* a step of try_alternative_sources.main
RunsAlt == prog = "alt" /\ UNCHANGED <<prog, acq_vars, ft_vars, pl_vars, av_vars, nz_vars, sc_vars, qc_vars, dt_vars, sl_vars, fa_vars, lm_vars>>

\* a step of normalize_csv
RunsNormalize ==
    prog = "normalize"
    /\ UNCHANGED <<prog, acq_vars, ft_vars, pl_vars, alt_vars, av_vars, sc_vars, qc_vars, dt_vars, sl_vars, fa_vars, lm_vars>>

\* an operation on the StockDataSchema instance
RunsSchema ==
    prog = "schema"
    /\ UNCHANGED <<prog, acq_vars, ft_vars, pl_vars, alt_vars, av_vars, nz_vars, qc_vars, dt_vars, sl_vars, fa_vars, lm_vars>>

\* a call of a method of the DataQualityChecker, or time passing around it
RunsChecker ==
    prog = "checker"
    /\ UNCHANGED <<prog, acq_vars, ft_vars, pl_vars, alt_vars, av_vars, nz_vars, sc_vars, dt_vars, sl_vars, fa_vars, lm_vars>>

\* a step of alphavantage_downloader.main
RunsAlpha == prog = "alpha" /\ UNCHANGED <<prog, acq_vars, ft_vars, pl_vars, alt_vars, nz_vars, sc_vars, qc_vars, dt_vars, sl_vars, fa_vars, lm_vars>>

\* a step of load_manual_csv.load_manual_csvs
RunsLoad ==
    prog = "load"
    /\ UNCHANGED <<prog, acq_vars, ft_vars, pl_vars, alt_vars, av_vars, nz_vars, sc_vars, qc_vars, dt_vars, sl_vars, fa_vars>>

\* a step of professional_scraper.final_data_acquisition
RunsFinal ==
    prog = "final"
    /\ UNCHANGED <<prog, acq_vars, ft_vars, pl_vars, alt_vars, av_vars, nz_vars, sc_vars, qc_vars, dt_vars, sl_vars, lm_vars>>

\* a step of selenium_scraper.main
RunsSelenium ==
    prog = "selenium"
    /\ UNCHANGED <<prog, acq_vars, ft_vars, pl_vars, alt_vars, av_vars, nz_vars, sc_vars, qc_vars, dt_vars, fa_vars, lm_vars>>

\* a step of detect_csv_format
RunsDetect ==
    prog = "detect"
    /\ UNCHANGED <<prog, acq_vars, ft_vars, pl_vars, alt_vars, av_vars, nz_vars, sc_vars, qc_vars, sl_vars, fa_vars, lm_vars>>

(***************************************************************************)
(* Bounds of the model.                                                    *)
(***************************************************************************)
\* how many stocks of the configured list a run of a script loops over
NumStocks == 2
\* the largest number of rows an external source returns
MaxRows == 2
\* how many tickers of TEST_TICKERS a run of validate_data_pipeline loops over
NumTestTickers == 2
\* the largest max_retries fetch_stock_data is called with on its own
MaxRetriesArg == 3
\* the longest ticker list alphavantage_downloader.main is run on
MaxAlphaStocks == 10
\* the largest number of data rows of a manual CSV file
MaxFileRows == 2
\* the largest price a StockDataSchema field is given
MaxPrice == 3
\* how many ordinary bars a checked frame has after its first rows
MaxFill == 11
\* how many half days may pass while the checker is in use
MaxTicks == 2
\* how many times run_all_checks is called on the checker
MaxRuns == 2
\* the largest number of CSV files in data/raw/manual
MaxManualFiles == 2

(***************************************************************************)
(* Values shared by the scripts.                                           *)
(***************************************************************************)
\* Python's None where a DataFrame is expected
None == [tag |-> "None", rows |-> 0]

\* a DataFrame with n rows, as far as the orchestration reads it (len, empty)
DataFrame(n) == [tag |-> "DataFrame", rows |-> n]

\* an exception that propagates out of a call
Raised == [tag |-> "Raise", rows |-> 0]

\* the marker of an adapter call that has not returned yet
Pending == [tag |-> "Pending", rows |-> 0]

\* the value of `method` before any adapter succeeded
NoMethod == "None"

(***************************************************************************)
(* acquire_real_data.py                                                    *)
(***************************************************************************)
\* the target stocks
Stocks == <<"BBCA", "GOTO", "BUMI", "BBRI", "TLKM">>

\* ticker = f"{stock}.JK"
Ticker(stock) == <<stock, ".JK">>

\* What investing.com / the investpy library can do on one call.
InvestpyEnv ==
    {[kind |-> "import_error", rows |-> 0], [kind |-> "exception", rows |-> 0]}
    \cup {[kind |-> "frame", rows |-> n] : n \in 0..MaxRows}

\* try_investpy without its `if not df.empty` test
TryInvestpy_NoEmptyCheck(env) ==
    IF env.kind = "frame" THEN DataFrame(env.rows) ELSE None

\* try_investpy without its `except Exception`
TryInvestpy_NoCatch(env) ==
    IF env.kind \in {"import_error", "exception"} THEN Raised
    ELSE IF env.rows > 0 THEN DataFrame(env.rows) ELSE None

\* try_investpy: the frame if the library returned a non-empty one, None if
\* it returned an empty one or anything inside the try block raised.
TryInvestpy(env) ==
    IF env.kind \in {"import_error", "exception"} THEN None
    ELSE IF env.rows > 0 THEN DataFrame(env.rows) ELSE None

\* What the Yahoo download endpoint can do on one call: requests.get raises
\* (timeout, connection error), or a response arrives with a status code and
\* a CSV body of `rows` rows that has a Date column or not, whose dates
\* pd.to_datetime can parse or not.
YahooEnv ==
    {[kind |-> "exception", status |-> 0, rows |-> 0, hasDate |-> FALSE, dateOk |-> FALSE]}
    \cup {[kind |-> "response", status |-> s, rows |-> n, hasDate |-> h, dateOk |-> d] :
             s \in {200, 404, 429}, n \in 0..MaxRows, h \in BOOLEAN, d \in BOOLEAN}

\* what happened inside a Yahoo call, for the call log
YahooEvent(env) ==
    IF env.kind = "exception" THEN "exception"
    ELSE IF env.status # 200 THEN "http_error"
    ELSE IF env.rows = 0 THEN "empty"
    ELSE IF ~env.hasDate THEN "no_date"
    ELSE IF ~env.dateOk THEN "exception"
    ELSE "frame"

\* what happened inside an investpy call, for the call log
InvestpyEvent(env) ==
    IF env.kind = "frame" THEN (IF env.rows = 0 THEN "empty" ELSE "frame")
    ELSE "exception"

\* try_yahoo_download_direct: the frame if the response is a 200 whose CSV
\* is non-empty and has a Date column that parses; None otherwise, also when
\* anything inside the try block raised (pd.read_csv of an empty body raises
\* EmptyDataError, pd.to_datetime raises on a bad date).
TryYahooDownloadDirect(env) ==
    IF env.kind = "exception" THEN None
    ELSE IF env.status = 200 /\ env.rows > 0 /\ env.hasDate
         THEN (IF env.dateOk THEN DataFrame(env.rows) ELSE None)
         ELSE None

\* try_idx_website_scraping: the manual-download instructions for a ticker
TryIdxWebsiteScraping(ticker) == [instructions_for |-> ticker]

\* `if data is None:` before method 2, made unconditional
NeedsYahoo_Always(data) == TRUE

\* `if data is None:` before method 2
NeedsYahoo(data) == data = None

\* the else branch of `if data is not None`, without the manual instructions
RecordFailure_NoInstructions(results, ticker) ==
    [results EXCEPT !.failed = Append(@, ticker)]

\* the else branch of `if data is not None`: the ticker goes to 'failed' and
\* its instructions to 'manual_instructions'
RecordFailure(results, ticker) ==
    [results EXCEPT !.failed = Append(@, ticker),
                    !.manual_instructions = Append(@, TryIdxWebsiteScraping(ticker))]

\* the then branch of `if data is not None`: one entry in 'successful'
RecordSuccess(results, stock, method, data) ==
    [results EXCEPT !.successful =
        Append(@, [ticker |-> Ticker(stock), method |-> method,
                   records |-> data.rows, file |-> <<stock, "_real.csv">>])]

\* the state of acquire_real_data before its loop
AcqIdle ==
    /\ acq_pc = "idle"
    /\ acq_i = 1
    /\ acq_data = None
    /\ acq_method = NoMethod
    /\ acq_results = [successful |-> <<>>, failed |-> <<>>, manual_instructions |-> <<>>]
    /\ acq_summary = <<>>
    /\ acq_calls = <<>>

\* results = {...}; the output directories are created
AcqStart ==
    /\ RunsAcquire /\ acq_pc = "idle"
    /\ acq_pc' = "loop"
    /\ UNCHANGED <<acq_i, acq_data, acq_method, acq_results, acq_summary, acq_calls>>

\* for stock in stocks: data = None; method = None
AcqLoop ==
    /\ RunsAcquire /\ acq_pc = "loop"
    /\ IF acq_i <= NumStocks
       THEN /\ acq_pc' = "m1"
            /\ acq_data' = None
            /\ acq_method' = NoMethod
       ELSE /\ acq_pc' = "summary"
            /\ UNCHANGED <<acq_data, acq_method>>
    /\ UNCHANGED <<acq_i, acq_results, acq_summary, acq_calls>>

\* the call of try_investpy(stock, ...)
AcqCallInvestpy ==
    /\ RunsAcquire /\ acq_pc = "m1"
    /\ acq_calls' = Append(acq_calls, [stock |-> acq_i, adapter |-> "investpy",
                                       event |-> "pending", result |-> Pending])
    /\ acq_pc' = "in_investpy"
    /\ UNCHANGED <<acq_i, acq_data, acq_method, acq_results, acq_summary>>

\* try_investpy returns; if data is not None: method = "investpy"
AcqReturnInvestpy ==
    /\ RunsAcquire /\ acq_pc = "in_investpy"
    /\ \E env \in InvestpyEnv :
          LET r == TryInvestpy(env) IN
          /\ acq_calls' = [acq_calls EXCEPT ![Len(acq_calls)] =
                              [@ EXCEPT !.event = InvestpyEvent(env), !.result = r]]
          /\ IF r = Raised
             THEN /\ acq_pc' = "crashed"
                  /\ UNCHANGED <<acq_data, acq_method>>
             ELSE /\ acq_pc' = "m2"
                  /\ acq_data' = r
                  /\ acq_method' = IF r # None THEN "investpy" ELSE acq_method
    /\ UNCHANGED <<acq_i, acq_results, acq_summary>>

\* if data is None: the call of try_yahoo_download_direct(ticker, ...)
AcqCallYahoo ==
    /\ RunsAcquire /\ acq_pc = "m2"
    /\ IF NeedsYahoo(acq_data)
       THEN /\ acq_calls' = Append(acq_calls, [stock |-> acq_i, adapter |-> "yahoo_direct",
                                               event |-> "pending", result |-> Pending])
            /\ acq_pc' = "in_yahoo"
       ELSE /\ acq_pc' = "save"
            /\ UNCHANGED acq_calls
    /\ UNCHANGED <<acq_i, acq_data, acq_method, acq_results, acq_summary>>

\* try_yahoo_download_direct returns; if data is not None: method = "yahoo_direct"
AcqReturnYahoo ==
    /\ RunsAcquire /\ acq_pc = "in_yahoo"
    /\ \E env \in YahooEnv :
          LET r == TryYahooDownloadDirect(env) IN
          /\ acq_calls' = [acq_calls EXCEPT ![Len(acq_calls)] =
                              [@ EXCEPT !.event = YahooEvent(env), !.result = r]]
          /\ IF r = Raised
             THEN /\ acq_pc' = "crashed"
                  /\ UNCHANGED <<acq_data, acq_method>>
             ELSE /\ acq_pc' = "save"
                  /\ acq_data' = r
                  /\ acq_method' = IF r # None THEN "yahoo_direct" ELSE acq_method
    /\ UNCHANGED <<acq_i, acq_results, acq_summary>>

\* Save if successful, else record the failure; then the next stock.
\* (The CSV write is taken to succeed: the file system is not an adapter.)
AcqSave ==
    /\ RunsAcquire /\ acq_pc = "save"
    /\ acq_results' = IF acq_data # None
                      THEN RecordSuccess(acq_results, Stocks[acq_i], acq_method, acq_data)
                      ELSE RecordFailure(acq_results, Ticker(Stocks[acq_i]))
    /\ acq_i' = acq_i + 1
    /\ acq_pc' = "loop"
    /\ UNCHANGED <<acq_data, acq_method, acq_summary, acq_calls>>

\* the summary file: ticker and method of every success, every failed ticker;
\* return results
AcqSummary ==
    /\ RunsAcquire /\ acq_pc = "summary"
    /\ acq_summary' = <<[successful |-> [k \in 1..Len(acq_results.successful) |->
                                            <<acq_results.successful[k].ticker,
                                              acq_results.successful[k].method>>],
                         failed |-> acq_results.failed]>>
    /\ acq_pc' = "done"
    /\ UNCHANGED <<acq_i, acq_data, acq_method, acq_results, acq_calls>>

AcquireNext ==
    \/ AcqStart
    \/ AcqLoop
    \/ AcqCallInvestpy
    \/ AcqReturnInvestpy
    \/ AcqCallYahoo
    \/ AcqReturnYahoo
    \/ AcqSave
    \/ AcqSummary


(***************************************************************************)
(* validate_data.py                                                        *)
(***************************************************************************)
\* config.YFINANCE_MAX_RETRIES, the default of max_retries
YFINANCE_MAX_RETRIES == 3

\* the number of QC passes overall_status 'PASS' needs
PassBar == 7

TEST_TICKERS ==
    <<"BBCA.JK", "BBRI.JK", "TLKM.JK", "GOTO.JK", "BUMI.JK",
      "BMRI.JK", "ASII.JK", "UNVR.JK", "ICBP.JK", "KLBF.JK">>

\* What one call of yf.Ticker(ticker).history(...) can do: return a frame
\* (empty for an unknown or delisted ticker) or raise.
HistoryEnv ==
    {[kind |-> "frame", rows |-> n, error |-> "none"] : n \in 0..MaxRows}
    \cup {[kind |-> "exception", rows |-> 0, error |-> e] :
             e \in {"Timeout", "ConnectionError", "AuthError", "NotFound"}}

\* what fetch_stock_data hands to its caller
FtNothing == [tag |-> "None", rows |-> 0, msg |-> ""]

FtFrame(n) == [tag |-> "DataFrame", rows |-> n, msg |-> ""]

\* RuntimeError(msg)
FtRuntimeError(msg) == [tag |-> "Raise", rows |-> 0, msg |-> msg]

\* the state of fetch_stock_data while it is not running
FtIdle ==
    /\ ft_pc = "idle"
    /\ ft_max_retries = YFINANCE_MAX_RETRIES
    /\ ft_attempt = 0
    /\ ft_calls = <<>>
    /\ ft_ret = FtNothing

\* the state of validate_data_pipeline before it starts
PlIdle ==
    /\ pl_pc = "idle"
    /\ pl_i = 1
    /\ pl_results = [stocks_tested |-> NumTestTickers, successful_fetches |-> 0,
                     failed_fetches |-> 0, quality_reports |-> <<>>,
                     overall_status |-> "PENDING", passed_qc |-> 0,
                     statistics |-> <<>>]
    /\ pl_all_data = <<>>
    /\ pl_log = <<>>

\* a test that lets an empty frame through
HasRows_EvenEmpty(env) == env.kind = "frame"

\* the call came back with a frame and `df.empty` is false
HasRows(env) == env.kind = "frame" /\ env.rows > 0

\* one iteration of `for attempt in range(max_retries)`: the source is called;
\* a non-empty frame is returned, an empty one or an exception goes to the
\* next attempt, an exception on the last attempt raises RuntimeError
FetchAttempt ==
    /\ RunsFetch /\ ft_pc = "loop" /\ ft_attempt < ft_max_retries
    /\ \E env \in HistoryEnv :
          /\ ft_calls' = Append(ft_calls, env)
          /\ IF HasRows(env)
             THEN /\ ft_pc' = "returned"
                  /\ ft_ret' = FtFrame(env.rows)
                  /\ UNCHANGED ft_attempt
             ELSE IF env.kind = "exception" /\ ft_attempt = ft_max_retries - 1
             THEN /\ ft_pc' = "raised"
                  /\ ft_ret' = FtRuntimeError("Failed to fetch data after max_retries attempts")
                  /\ UNCHANGED ft_attempt
             ELSE /\ ft_attempt' = ft_attempt + 1
                  /\ UNCHANGED <<ft_pc, ft_ret>>
    /\ UNCHANGED <<ft_max_retries, pl_vars>>

\* the loop ran out without a return or a raise: raise RuntimeError
FetchExhausted ==
    /\ RunsFetch /\ ft_pc = "loop" /\ ft_attempt >= ft_max_retries
    /\ ft_pc' = "raised"
    /\ ft_ret' = FtRuntimeError("Failed to fetch data")
    /\ UNCHANGED <<ft_max_retries, ft_attempt, ft_calls, pl_vars>>

\* fetch_stock_data from its call to its return or raise
FetchNext == FetchAttempt \/ FetchExhausted

\* the dict `d` with d[k] = v
DictSet(d, k, v) == (k :> v) @@ d

\* `except Exception as e` of the loop of validate_data_pipeline
PlExcept(results, ticker, msg) ==
    [results EXCEPT !.failed_fetches = @ + 1,
                    !.quality_reports =
                        DictSet(@, ticker, [overall_status |-> "ERROR", error |-> msg])]

\* results['quality_reports'][ticker] = qc_report; results['successful_fetches'] += 1
PlRecordReport(results, ticker, status) ==
    [results EXCEPT !.quality_reports =
                        DictSet(@, ticker, [overall_status |-> status, error |-> ""]),
                    !.successful_fetches = @ + 1]

\* results = {...}; all_data = []
PlStart ==
    /\ RunsPipeline /\ pl_pc = "idle"
    /\ pl_pc' = "loop"
    /\ UNCHANGED <<pl_i, pl_results, pl_all_data, pl_log, ft_vars>>

\* for ticker in TEST_TICKERS: try: df = fetch_stock_data(ticker, ...)
PlCallFetch ==
    /\ RunsPipeline /\ pl_pc = "loop" /\ pl_i <= NumTestTickers
    /\ ft_pc' = "loop"
    /\ ft_max_retries' = YFINANCE_MAX_RETRIES
    /\ ft_attempt' = 0
    /\ ft_calls' = <<>>
    /\ ft_ret' = FtNothing
    /\ pl_pc' = "fetching"
    /\ UNCHANGED <<pl_i, pl_results, pl_all_data, pl_log>>

\* The rest of the try body once fetch_stock_data is over (its frame is gone:
\* the record of its calls is reset), and the except clause: the quality check (PASS, FAIL, or an exception inside the
\* checker), the report and the counter, the CSV write (which may raise),
\* all_data.append(df).
PlTryBody ==
    /\ RunsPipeline /\ pl_pc = "fetching" /\ ft_pc \in {"returned", "raised"}
    /\ \E qc \in {"PASS", "FAIL", "exception"}, save \in {"ok", "exception"} :
          LET t == TEST_TICKERS[pl_i]
              r1 == PlRecordReport(pl_results, t, qc)
          IN
          IF ft_ret.tag = "Raise"
          THEN /\ pl_results' = PlExcept(pl_results, t, ft_ret.msg)
               /\ pl_log' = Append(pl_log, "fetch_raised")
               /\ UNCHANGED pl_all_data
          ELSE IF qc = "exception"
          THEN /\ pl_results' = PlExcept(pl_results, t, "quality check raised")
               /\ pl_log' = Append(pl_log, "qc_raised")
               /\ UNCHANGED pl_all_data
          ELSE IF save = "exception"
          THEN /\ pl_results' = PlExcept(r1, t, "to_csv raised")
               /\ pl_log' = Append(pl_log, "save_raised")
               /\ UNCHANGED pl_all_data
          ELSE /\ pl_results' = r1
               /\ pl_log' = Append(pl_log, "ok")
               /\ pl_all_data' = Append(pl_all_data, ft_ret.rows)
    /\ pl_i' = pl_i + 1
    /\ pl_pc' = "loop"
    /\ ft_pc' = "idle"
    /\ ft_attempt' = 0
    /\ ft_calls' = <<>>
    /\ ft_ret' = FtNothing
    /\ UNCHANGED ft_max_retries

RECURSIVE SumSeq(_)
\* len(pd.concat(all_data)): the rows of all frames
SumSeq(q) == IF q = <<>> THEN 0 ELSE Head(q) + SumSeq(Tail(q))

\* the aggregate statistics, passed_qc and overall_status; return results
PlFinish ==
    /\ RunsPipeline /\ pl_pc = "loop" /\ pl_i > NumTestTickers
    /\ LET reports == pl_results.quality_reports
           passed == Cardinality({t \in DOMAIN reports : reports[t].overall_status = "PASS"})
           stats == IF pl_all_data # <<>>
                    THEN <<[total_records |-> SumSeq(pl_all_data),
                            avg_records_per_stock |->
                                SumSeq(pl_all_data) \div NumTestTickers]>>
                    ELSE <<>>
       IN pl_results' = [pl_results EXCEPT
                            !.statistics = stats,
                            !.passed_qc = passed,
                            !.overall_status = IF passed >= PassBar THEN "PASS" ELSE "FAIL"]
    /\ pl_pc' = "done"
    /\ UNCHANGED <<pl_i, pl_all_data, pl_log, ft_vars>>

PipelineNext ==
    \/ FetchAttempt
    \/ FetchExhausted
    \/ PlStart
    \/ PlCallFetch
    \/ PlTryBody
    \/ PlFinish

(***************************************************************************)
(* try_alternative_sources.py                                              *)
(***************************************************************************)
\* stocks of main
AltStocks == <<"BBCA", "GOTO", "BUMI", "BBRI", "TLKM">>

\* try_stooq wants more than this many records in the download
StooqMinRecords == 10

\* What stooq.com can do on one call: requests.get raises, or a response
\* arrives with a status code and a CSV of `rows` rows, `inRange` of them
\* within [start_date, end_date].
StooqEnv ==
    {[kind |-> "exception", status |-> 0, rows |-> 0, inRange |-> 0]}
    \cup {[kind |-> "response", status |-> s, rows |-> n, inRange |-> m] :
             s \in {200, 404},
             n \in {0, StooqMinRecords, StooqMinRecords + 1},
             m \in {0, 1, StooqMinRecords + 1}}

\* the responses that can exist: no more rows in range than rows
StooqEnvOk == {env \in StooqEnv : env.inRange <= env.rows}

\* what happened inside a try_stooq call, for the call log
StooqEvent(env) ==
    IF env.kind = "exception" THEN "exception"
    ELSE IF env.status # 200 THEN "http_error"
    ELSE IF env.rows <= StooqMinRecords THEN "too_few"
    ELSE IF env.inRange = 0 THEN "out_of_range"
    ELSE "frame"

\* try_stooq: the rows within the date range if the response is a 200 with
\* more than 10 records and any of them is in range; None otherwise, also
\* when anything inside the try block raised
TryStooq(env) ==
    IF env.kind = "exception" THEN None
    ELSE IF env.status = 200 /\ env.rows > StooqMinRecords /\ env.inRange > 0
         THEN DataFrame(env.inRange)
         ELSE None

\* the state of try_alternative_sources.main before it starts
AltIdle ==
    /\ alt_pc = "idle"
    /\ alt_i = 1
    /\ alt_successful = <<>>
    /\ alt_files = {}
    /\ alt_ret = "None"
    /\ alt_calls = <<>>

\* successful = []; the output directory is created
AltStart ==
    /\ RunsAlt /\ alt_pc = "idle"
    /\ alt_pc' = "loop"
    /\ UNCHANGED <<alt_i, alt_successful, alt_files, alt_ret, alt_calls>>

\* for stock in stocks: df = try_stooq(...); if df is not None and
\* len(df) > 0: save the CSV and append to successful; time.sleep(3)
AltTryStock ==
    /\ RunsAlt /\ alt_pc = "loop" /\ alt_i <= NumStocks
    /\ \E env \in StooqEnvOk :
          LET df == TryStooq(env)
              stock == AltStocks[alt_i]
          IN
          /\ alt_calls' = Append(alt_calls, [stock |-> stock, event |-> StooqEvent(env),
                                             result |-> df])
          /\ IF df # None /\ df.rows > 0
             THEN /\ alt_files' = alt_files \cup {<<stock, "_stooq.csv">>}
                  /\ alt_successful' =
                         Append(alt_successful,
                                [ticker |-> stock, source |-> "stooq",
                                 records |-> df.rows, file |-> <<stock, "_stooq.csv">>])
             ELSE UNCHANGED <<alt_files, alt_successful>>
    /\ alt_i' = alt_i + 1
    /\ UNCHANGED <<alt_pc, alt_ret>>

\* after the loop: with a success, print the list and return True; without
\* one, print the manual guide, save it to MANUAL_DOWNLOAD_GUIDE.txt and
\* return False
AltFinish ==
    /\ RunsAlt /\ alt_pc = "loop" /\ alt_i > NumStocks
    /\ IF alt_successful # <<>>
       THEN /\ alt_ret' = "True"
            /\ UNCHANGED alt_files
       ELSE /\ alt_ret' = "False"
            /\ alt_files' = alt_files \cup {<<"MANUAL_DOWNLOAD_GUIDE.txt">>}
    /\ alt_pc' = "done"
    /\ UNCHANGED <<alt_i, alt_successful, alt_calls>>

AltNext ==
    \/ AltStart
    \/ AltTryStock
    \/ AltFinish

(***************************************************************************)
(* alphavantage_downloader.py                                              *)
(***************************************************************************)
\* "5 API calls per minute": the quota N
AV_CALLS_PER_WINDOW == 5

\* ... per minute: the window, in seconds
AV_WINDOW == 60

\* wait_time = 13 is one second more than the comment's 12
WaitTime_12 == 12

\* wait_time = 13
WaitTime == 13

\* requests.get(..., timeout=20)
AV_TIMEOUT == 20

\* how long one download_stock_data call can take, in seconds: no time, or
\* the time-out of its request
AvDurations == {0, AV_TIMEOUT}

\* the state of alphavantage main before its loop
AvIdle ==
    /\ av_pc = "idle"
    /\ av_i = 0
    /\ av_clock = 0
    /\ av_requests = <<>>
    /\ av_successful = 0
    /\ av_failed = 0

\* the API key is set; the output directory is created.  With an empty
\* STOCKS the loop body never runs.
AvStart ==
    /\ RunsAlpha /\ av_pc = "idle"
    /\ av_pc' \in {"download", "summary"}
    /\ UNCHANGED <<av_i, av_clock, av_requests, av_successful, av_failed>>

\* df = download_stock_data(ticker, key): one request, issued now, that
\* takes some time and yields a non-empty frame or not; the ticker is
\* counted in successful or in failed
AvDownload ==
    /\ RunsAlpha /\ av_pc = "download" /\ av_i < MaxAlphaStocks
    /\ av_requests' = Append(av_requests, av_clock)
    /\ \E d \in AvDurations : av_clock' = av_clock + d
    /\ \E ok \in BOOLEAN :
          IF ok THEN av_successful' = av_successful + 1 /\ UNCHANGED av_failed
                ELSE av_failed' = av_failed + 1 /\ UNCHANGED av_successful
    /\ av_pc' = "ratelimit"
    /\ UNCHANGED av_i

\* if i < len(STOCKS) - 1: time.sleep(wait_time), which sleeps at least that
\* long; then the next ticker.  The length of STOCKS is not fixed by the
\* model: each ticker but the MaxAlphaStocks-th may or may not be the last.
AvRateLimit ==
    /\ RunsAlpha /\ av_pc = "ratelimit"
    /\ \/ /\ av_i + 1 < MaxAlphaStocks
          /\ av_clock' = av_clock + WaitTime
          /\ av_i' = av_i + 1
          /\ av_pc' = "download"
       \/ /\ av_pc' = "summary"
          /\ UNCHANGED <<av_i, av_clock>>
    /\ UNCHANGED <<av_requests, av_successful, av_failed>>

\* the summary is printed and the combined file saved
AvSummary ==
    /\ RunsAlpha /\ av_pc = "summary"
    /\ av_pc' = "done"
    /\ UNCHANGED <<av_i, av_clock, av_requests, av_successful, av_failed>>

AlphaNext ==
    \/ AvStart
    \/ AvDownload
    \/ AvRateLimit
    \/ AvSummary


(***************************************************************************)
(* load_manual_csv.py                                                      *)
(***************************************************************************)
\* a missing value (NaN, NaT) and a present one
NaN == [null |-> TRUE, v |-> 0]

Val(x) == [null |-> FALSE, v |-> x]

\* a column of the file as read: its name as written in the header line and
\* the field of the rows it carries
Col(name, field) == [name |-> name, field |-> field]

\* Header lines of manual CSV files: Yahoo, Stooq, a hand-edited file in
\* lower case, the IDX site's Indonesian names, a file with a Ticker column,
\* and files that lack Close, Date or Volume.
Headers ==
    { <<Col("Date", "date"), Col("Open", "open"), Col("High", "high"), Col("Low", "low"),
        Col("Close", "close"), Col("Adj Close", "adj"), Col("Volume", "volume")>>,
      <<Col("Date", "date"), Col("Open", "open"), Col("High", "high"), Col("Low", "low"),
        Col("Close", "close"), Col("Volume", "volume")>>,
      <<Col(" date ", "date"), Col("open", "open"), Col("high", "high"), Col("low", "low"),
        Col("close", "close"), Col("volume", "volume")>>,
      <<Col("Kode", "ticker"), Col("Tanggal", "date"), Col("Pembukaan", "open"),
        Col("Tertinggi", "high"), Col("Terendah", "low"), Col("Penutupan", "close"),
        Col("Vol", "volume")>>,
      <<Col("Date", "date"), Col("Ticker", "ticker"), Col("Open", "open"),
        Col("High", "high"), Col("Low", "low"), Col("Close", "close"),
        Col("Volume", "volume")>>,
      <<Col("Date", "date"), Col("Open", "open"), Col("High", "high"), Col("Low", "low"),
        Col("Volume", "volume")>>,
      <<Col("Open", "open"), Col("High", "high"), Col("Low", "low"),
        Col("Close", "close"), Col("Volume", "volume")>>,
      <<Col("Date", "date"), Col("Open", "open"), Col("High", "high"), Col("Low", "low"),
        Col("Close", "close")>> }

\* c.strip().title().replace(' ', '_') on the header names above
StripTitleUnderscore(c) ==
    CASE c = " date " -> "Date"
      [] c = "open" -> "Open"
      [] c = "high" -> "High"
      [] c = "low" -> "Low"
      [] c = "close" -> "Close"
      [] c = "volume" -> "Volume"
      [] c = "Adj Close" -> "Adj_Close"
      [] OTHER -> c

\* column_map of normalize_csv, as df.rename applies it
RenameColumn(c) ==
    CASE c \in {"Tanggal", "Tgl"} -> "Date"
      [] c = "Pembukaan" -> "Open"
      [] c = "Tertinggi" -> "High"
      [] c = "Terendah" -> "Low"
      [] c = "Penutupan" -> "Close"
      [] c = "Vol" -> "Volume"
      [] OTHER -> c

\* required + ['Ticker', 'Adj_Close']
KeepOrder == <<"Date", "Open", "High", "Low", "Close", "Volume", "Ticker", "Adj_Close">>

\* The date text of a row: day 1 or day 2, or text no format parses
\* (written as day 0).  pd.to_datetime(errors='coerce') turns the latter,
\* and a missing value, into NaT.
ToDatetimeCoerce(cell) == IF cell.null \/ cell.v = 0 THEN NaN ELSE cell

\* Texts the code takes apart (file names, tickers) are the sequences of
\* their characters.  The letters str.upper() maps onto each other:
Lowercase == <<"a", "b", "c", "d", "e", "f", "g", "h", "i", "j", "k", "l", "m", "n", "o", "p", "q", "r", "s", "t", "u", "v", "w", "x", "y", "z">>

Uppercase == <<"A", "B", "C", "D", "E", "F", "G", "H", "I", "J", "K", "L", "M", "N", "O", "P", "Q", "R", "S", "T", "U", "V", "W", "X", "Y", "Z">>

\* s.upper()
Upper(s) ==
    [i \in 1..Len(s) |->
        IF \E k \in 1..Len(Lowercase) : Lowercase[k] = s[i]
        THEN Uppercase[CHOOSE k \in 1..Len(Lowercase) : Lowercase[k] = s[i]]
        ELSE s[i]]

\* s.split(sep)[0]
SplitFirst(s, sep) ==
    IF \E i \in 1..Len(s) : s[i] = sep
    THEN SubSeq(s, 1, (CHOOSE i \in 1..Len(s) :
                          s[i] = sep /\ \A j \in 1..(i - 1) : s[j] # sep) - 1)
    ELSE s

\* s.endswith(suffix)
EndsWith(s, suffix) ==
    Len(s) >= Len(suffix) /\ SubSeq(s, Len(s) - Len(suffix) + 1, Len(s)) = suffix

\* '.JK'
DotJK == <<".", "J", "K">>

\* the file names (stems) of the manual files: BBCA_real, goto.jk_idx,
\* stocks_2024
Stems ==
    { <<"B", "B", "C", "A", "_", "r", "e", "a", "l">>,
      <<"g", "o", "t", "o", ".", "j", "k", "_", "i", "d", "x">>,
      <<"s", "t", "o", "c", "k", "s", "_", "2", "0", "2", "4">> }

\* file_path.stem.split('_')[0].upper(), with '.JK' appended unless it ends
\* with it
TickerFromStem(stem) ==
    LET ticker == Upper(SplitFirst(stem, "_"))
    IN IF EndsWith(ticker, DotJK) THEN ticker ELSE ticker \o DotJK

\* A price cell whose text is no number ("n/a", "1.234,5"; written as -99):
\* pd.read_csv keeps the text as it is, and the cell is not missing.
Unparsed == Val(-99)

\* The open, high, low, close, volume and adjusted close of a row: a sound
\* bar, High < Low, Close above High, a negative volume, a missing Close,
\* a Close that is no number.
Bars ==
    { [open |-> Val(1), high |-> Val(2), low |-> Val(1), close |-> Val(2),
       volume |-> Val(5), adj |-> Val(2)],
      [open |-> Val(1), high |-> Val(1), low |-> Val(2), close |-> Val(1),
       volume |-> Val(5), adj |-> Val(1)],
      [open |-> Val(1), high |-> Val(2), low |-> Val(1), close |-> Val(3),
       volume |-> Val(5), adj |-> Val(3)],
      [open |-> Val(1), high |-> Val(2), low |-> Val(1), close |-> Val(1),
       volume |-> Val(-1), adj |-> Val(1)],
      [open |-> Val(1), high |-> Val(2), low |-> Val(1), close |-> NaN,
       volume |-> Val(0), adj |-> NaN],
      [open |-> Val(1), high |-> Val(2), low |-> Val(1), close |-> Unparsed,
       volume |-> Val(5), adj |-> Val(2)] }

\* the rows a file can hold
FileRows ==
    { [date |-> Val(d), open |-> b.open, high |-> b.high, low |-> b.low,
       close |-> b.close, volume |-> b.volume, adj |-> b.adj,
       ticker |-> Val(<<"T", "L", "K", "M", ".", "J", "K">>)] : d \in 0..2, b \in Bars }

\* the sequences over S of length at most n
SeqsUpTo(S, n) == UNION {[1..m -> S] : m \in 0..n}

\* the files normalize_csv is called on: one no encoding can read, and the
\* readable ones
NzFiles ==
    {[readable |-> FALSE, stem |-> <<"B", "B", "C", "A", "_", "r", "e", "a", "l">>, header |-> <<>>,
      rows |-> <<>>]}
    \cup [readable : {TRUE}, stem : Stems, header : Headers,
          rows : SeqsUpTo(FileRows, MaxFileRows)]

\* no file: the scripts that never call normalize_csv
NoFile == [readable |-> FALSE, stem |-> <<>>, header |-> <<>>, rows |-> <<>>]

\* what normalize_csv returns when it fails
NzNone == [tag |-> "None", columns |-> <<>>, rows |-> <<>>]

\* r put at the end of q, whatever its Date: a frame left in file order
InsertByDate_FileOrder(q, r) == Append(q, r)

\* r put into the date-sorted q after every row whose Date is not later
InsertByDate(q, r) ==
    LET n == Cardinality({j \in 1..Len(q) : q[j]["Date"].v <= r["Date"].v})
    IN SubSeq(q, 1, n) \o <<r>> \o SubSeq(q, n + 1, Len(q))

RECURSIVE SortByDate(_)
\* df.sort_values('Date').reset_index(drop=True): ascending, and rows of
\* equal Date keep their order (frames this small are insertion-sorted)
SortByDate(q) ==
    IF q = <<>> THEN <<>>
    ELSE InsertByDate(SortByDate(SubSeq(q, 1, Len(q) - 1)), q[Len(q)])

\* normalize_csv(file_path): None when the file cannot be read or a KeyError
\* is raised (no Date column at the conversion, no Close column at dropna);
\* otherwise the kept columns of the rows that have a Date and a Close,
\* sorted by Date.
NormalizeCsv(file) ==
    IF ~file.readable THEN NzNone
    ELSE
    LET titled == [i \in 1..Len(file.header) |->
                      [file.header[i] EXCEPT !.name = StripTitleUnderscore(@)]]
        renamed == [i \in 1..Len(titled) |->
                      [titled[i] EXCEPT !.name = RenameColumn(@)]]
        names == {renamed[i].name : i \in 1..Len(renamed)}
        withTicker == IF "Ticker" \in names THEN renamed
                      ELSE Append(renamed, Col("Ticker", "from_stem"))
        allNames == names \cup {"Ticker"}
        keep_cols == SelectSeq(KeepOrder, LAMBDA c : c \in allNames)
        FieldOf(c) == (CHOOSE i \in 1..Len(withTicker) : withTicker[i].name = c)
        Cell(r, c) == IF withTicker[FieldOf(c)].field = "from_stem"
                      THEN Val(TickerFromStem(file.stem))
                      ELSE IF c = "Date" THEN ToDatetimeCoerce(r.date)
                      ELSE r[withTicker[FieldOf(c)].field]
        kept == [j \in 1..Len(file.rows) |->
                    [c \in {keep_cols[i] : i \in 1..Len(keep_cols)} |->
                        Cell(file.rows[j], c)]]
        complete == SelectSeq(kept, LAMBDA r : ~r["Date"].null /\ ~r["Close"].null)
    IN
    IF "Date" \notin names \/ "Close" \notin names THEN NzNone
    ELSE [tag |-> "DataFrame", columns |-> keep_cols, rows |-> SortByDate(complete)]

\* the state of normalize_csv before it is called
NzIdle(file) ==
    /\ nz_pc = "idle"
    /\ nz_file = file
    /\ nz_out = NzNone
    /\ nz_returned = <<>>

\* a normalize_csv whose frame keeps the rows of the call before
NormalizeCsvCall_KeepsRows(file, earlier) ==
    IF earlier = <<>> THEN NormalizeCsv(file)
    ELSE [NormalizeCsv(file) EXCEPT !.rows = earlier[Len(earlier)].rows \o @]

\* One call of normalize_csv after the calls that returned `earlier`: df and
\* every other name of the function is a local, the file is only read, so
\* nothing of an earlier call reaches this one.
NormalizeCsvCall(file, earlier) == NormalizeCsv(file)

\* df = normalize_csv(csv_file), on a file for the first time or once more
NzNormalize ==
    /\ RunsNormalize /\ nz_pc \in {"idle", "done"}
    /\ nz_out' = NormalizeCsvCall(nz_file, nz_returned)
    /\ nz_returned' = Append(nz_returned, nz_out')
    /\ nz_pc' = IF nz_pc = "idle" THEN "done" ELSE "again"
    /\ UNCHANGED nz_file

(***************************************************************************)
(* validators.py: StockDataSchema                                          *)
(***************************************************************************)
\* The numeric fields the validators read, in the order the class declares
\* them (which is the order pydantic validates them in).  Volumes are
\* counted in lots of ten shares, so that the cap of 1e10 shares is a
\* number a 32-bit integer can hold.
SchemaFields == <<"open", "high", "low", "close", "volume">>

\* `if v > 1e10`, in lots of ten shares
UnrealisticVolume == 1000000000

\* the values a field is given
SchemaValues(name) ==
    IF name = "volume"
    THEN {-1, 0, 1, UnrealisticVolume, UnrealisticVolume + 1}
    ELSE 0..MaxPrice

\* Field(..., gt=0) of the prices, Field(..., ge=0) of volume
FieldConstraint(name, v) == IF name = "volume" THEN v >= 0 ELSE v > 0

\* The field_validator of a field, given info.data: the fields validated
\* before it at construction, all the other fields at an assignment.
\* high_gte_low, close_within_range, volume_reasonable; open and low have
\* none.
FieldValidator(name, v, data) ==
    CASE name = "high" -> ~("low" \in DOMAIN data /\ v < data["low"])
      [] name = "close" -> ~(/\ "low" \in DOMAIN data
                             /\ "high" \in DOMAIN data
                             /\ (v < data["low"] \/ v > data["high"]))
      [] name = "volume" -> ~(v > UnrealisticVolume)
      [] OTHER -> TRUE

\* a field's value passes its constraint and then its validator
FieldOk(name, v, data) == FieldConstraint(name, v) /\ FieldValidator(name, v, data)

RECURSIVE ValidatedFrom(_, _, _)
\* Construction validates the fields in order from the i-th on; data holds
\* the fields that passed so far (a field that failed is left out of it).
\* The result is the data of all fields that passed.
ValidatedFrom(i, input, data) ==
    IF i > Len(SchemaFields) THEN data
    ELSE LET name == SchemaFields[i] IN
         IF FieldOk(name, input[name], data)
         THEN ValidatedFrom(i + 1, input, (name :> input[name]) @@ data)
         ELSE ValidatedFrom(i + 1, input, data)

\* StockDataSchema(**input) is accepted iff every field passed
ConstructOk(input) ==
    DOMAIN ValidatedFrom(1, input, <<>>) = {SchemaFields[i] : i \in 1..Len(SchemaFields)}

\* obj.name = v is accepted iff the field passes, with info.data the other
\* fields of the instance (validate_assignment = True)
AssignOk(obj, name, v) ==
    FieldOk(name, v, [f \in (DOMAIN obj) \ {name} |-> obj[f]])

\* no instance yet
ScIdle ==
    /\ sc_obj = <<>>
    /\ sc_last = "none"

\* StockDataSchema(open=..., high=..., low=..., close=..., volume=...): the
\* instance, or a ValidationError
ScConstruct ==
    /\ RunsSchema /\ sc_obj = <<>>
    /\ \E o \in SchemaValues("open"), h \in SchemaValues("high"),
          l \in SchemaValues("low"), c \in SchemaValues("close"),
          vol \in SchemaValues("volume") :
          LET input == [open |-> o, high |-> h, low |-> l, close |-> c, volume |-> vol]
          IN IF ConstructOk(input)
             THEN sc_obj' = <<input>> /\ sc_last' = "constructed"
             ELSE sc_last' = "rejected" /\ UNCHANGED sc_obj

\* obj.<name> = v: the field is set, or a ValidationError leaves the
\* instance as it was
ScAssign ==
    /\ RunsSchema /\ sc_obj # <<>>
    /\ \E i \in 1..Len(SchemaFields) :
          \E v \in SchemaValues(SchemaFields[i]) :
             IF AssignOk(sc_obj[1], SchemaFields[i], v)
             THEN /\ sc_obj' = <<[sc_obj[1] EXCEPT ![SchemaFields[i]] = v]>>
                  /\ sc_last' = "assigned"
             ELSE sc_last' = "rejected" /\ UNCHANGED sc_obj

SchemaNext ==
    \/ ScConstruct
    \/ ScAssign

(***************************************************************************)
(* float64 arithmetic, as numpy does it for check_completeness             *)
(***************************************************************************)
\* A natural number of any size is the sequence of its digits in base
\* LimbBase, least significant first and without a leading zero digit
\* (<<>> is zero).  A non-negative float64 is m * 2^e with m such a number
\* of at most 53 bits.
\* the bits of a digit
LimbBits == 15

LimbBase == 2^LimbBits


\* the place of the most significant digit of a that is not zero, 0 when
\* there is none
TopDigit(a) ==
    IF \A i \in 1..Len(a) : a[i] = 0 THEN 0
    ELSE CHOOSE i \in 1..Len(a) : a[i] # 0 /\ \A j \in (i + 1)..Len(a) : a[j] = 0

\* a without zero digits at its most significant end
BigNorm(a) == SubSeq(a, 1, TopDigit(a))

\* the digits of a natural number below 2^31
BigFromInt(n) ==
    BigNorm(<<n % LimbBase, (n \div LimbBase) % LimbBase, n \div (LimbBase * LimbBase)>>)

\* the lowest digit of a, and the digits above it
Digit0(a) == IF a = <<>> THEN 0 ELSE Head(a)

DigitsAbove(a) == IF a = <<>> THEN <<>> ELSE Tail(a)

RECURSIVE BigAddC(_, _, _)
\* a + b + c, c a carry
BigAddC(a, b, c) ==
    IF a = <<>> /\ b = <<>> THEN BigFromInt(c)
    ELSE <<(Digit0(a) + Digit0(b) + c) % LimbBase>>
            \o BigAddC(DigitsAbove(a), DigitsAbove(b),
                       (Digit0(a) + Digit0(b) + c) \div LimbBase)

BigAdd(a, b) == BigAddC(a, b, 0)

RECURSIVE BigSubB(_, _, _)
\* a - b - c for a >= b + c, c a borrow; leading zero digits are left in
BigSubB(a, b, c) ==
    IF a = <<>> THEN <<>>
    ELSE <<(Head(a) - Digit0(b) - c + LimbBase) % LimbBase>>
            \o BigSubB(Tail(a), DigitsAbove(b),
                       IF Head(a) - Digit0(b) - c < 0 THEN 1 ELSE 0)

BigSub(a, b) == BigNorm(BigSubB(a, b, 0))

RECURSIVE BigMulC(_, _, _)
\* a * k + c for k below LimbBase
BigMulC(a, k, c) ==
    IF a = <<>> THEN BigFromInt(c)
    ELSE <<(Head(a) * k + c) % LimbBase>>
            \o BigMulC(Tail(a), k, (Head(a) * k + c) \div LimbBase)

BigMulSmall(a, k) == BigNorm(BigMulC(a, k, 0))

\* the division of the digits above by d done (hi), its next step: the
\* digit lo below them
BigDivStep(hi, lo, d) ==
    [q |-> <<(hi.r * LimbBase + lo) \div d>> \o hi.q, r |-> (hi.r * LimbBase + lo) % d]

RECURSIVE BigDivRec(_, _)
\* quotient (leading zero digits left in) and remainder of a by d, d below
\* LimbBase
BigDivRec(a, d) ==
    IF a = <<>> THEN [q |-> <<>>, r |-> 0]
    ELSE BigDivStep(BigDivRec(Tail(a), d), Head(a), d)

NormQuotient(qr) == [q |-> BigNorm(qr.q), r |-> qr.r]

BigDivSmall(a, d) == NormQuotient(BigDivRec(a, d))

\* a >= b: by the number of digits, then by the most significant digit in
\* which they differ
BigGe(a, b) ==
    IF Len(a) # Len(b) THEN Len(a) > Len(b)
    ELSE \/ a = b
         \/ \E i \in 1..Len(a) : /\ a[i] > b[i]
                                 /\ \A j \in (i + 1)..Len(a) : a[j] = b[j]

Pow2(k) == 2^k

\* the number of bits of the digit n
BitLenInt(n) == CHOOSE b \in 0..LimbBits : n < Pow2(b) /\ (b = 0 \/ n >= Pow2(b - 1))

\* the number of bits of a
BitLen(a) == IF a = <<>> THEN 0 ELSE LimbBits * (Len(a) - 1) + BitLenInt(a[Len(a)])

\* a * 2^s: whole digits of zeros below, the bits that remain by a product
BigShl(a, s) ==
    IF a = <<>> THEN <<>>
    ELSE [i \in 1..(s \div LimbBits) |-> 0] \o BigMulSmall(a, Pow2(s % LimbBits))

\* the shift that left qr.q, and whether a bit that is set was dropped
BigShrOut(qr, lost) == [n |-> qr.q, lost |-> lost \/ qr.r # 0]

\* a with its s lowest bits dropped, and whether one of the dropped bits was
\* set: whole digits first, the bits that remain by a division
BigShr(a, s) ==
    BigShrOut(BigDivSmall(SubSeq(a, s \div LimbBits + 1, Len(a)), Pow2(s % LimbBits)),
              \E i \in 1..(s \div LimbBits) : i <= Len(a) /\ a[i] # 0)

\* the mantissa top.q whose next lower bit is top.r, bits below it set iff
\* lost, rounded to nearest, ties to even
RoundHalfEven(top, lost, e) ==
    [m |-> IF top.r = 1 /\ (lost \/ Digit0(top.q) % 2 = 1)
           THEN BigAdd(top.q, <<1>>) ELSE top.q,
     e |-> e]

RoundLow(low, e) == RoundHalfEven(BigDivSmall(low.n, 2), low.lost, e)

\* m * 2^e with the s lowest bits of m rounded away
RoundBits(m, e, s) ==
    IF s <= 0 THEN [m |-> m, e |-> e] ELSE RoundLow(BigShr(m, s - 1), e + s)

\* m * 2^e rounded to 53 bits of mantissa
Round53(m, e) == RoundBits(m, e, BitLen(m) - 53)

\* float(n) of a small natural number
FFromInt(n) == [m |-> BigFromInt(n), e |-> 0]

\* not a number: what dividing zero by zero gives, and every operation on it
FNaN == [nan |-> TRUE]

\* x / d in float64, d a small positive integer: the quotient to more than
\* 55 bits, and one more bit that tells whether a remainder is left
QuotientWithSticky(qr) ==
    BigAdd(BigMulSmall(qr.q, 2), IF qr.r # 0 THEN <<1>> ELSE <<>>)

FDivInt(x, d) ==
    IF x = FNaN THEN FNaN
    ELSE Round53(QuotientWithSticky(BigDivSmall(BigShl(x.m, 60), d)), x.e - 61)

\* 1 - x in float64, for 0 <= x <= 1
FOneMinus(x) ==
    IF x = FNaN THEN FNaN
    ELSE IF x.m = <<>> THEN FFromInt(1)
    ELSE Round53(BigSub(BigShl(<<1>>, -x.e), x.m), x.e)

\* x * k in float64, k a small natural number
FMulInt(x, k) == IF x = FNaN THEN FNaN ELSE Round53(BigMulSmall(x.m, k), x.e)

\* x + y in float64
FAddAt(x, y, e) == Round53(BigAdd(BigShl(x.m, x.e - e), BigShl(y.m, y.e - e)), e)

FAdd(x, y) ==
    IF x = FNaN \/ y = FNaN THEN FNaN
    ELSE FAddAt(x, y, IF x.e < y.e THEN x.e ELSE y.e)

\* x >= k, k a small natural number
FGeInt(x, k) ==
    IF x = FNaN THEN FALSE
    ELSE IF x.e >= 0 THEN BigGe(BigShl(x.m, x.e), BigFromInt(k))
    ELSE BigGe(x.m, BigShl(BigFromInt(k), -x.e))

(***************************************************************************)
(* validators.py: DataQualityChecker                                       *)
(***************************************************************************)
\* completeness.mean() >= 95, days_old < 2, len(extreme_returns) < 5
CompletenessTarget == 95

MaxDaysOld == 2

MaxExtremeReturns == 5

\* The frames handed to the checker: what their columns are and whether the
\* Date column carries a time zone (as the frames of yfinance do).
QcLayouts ==
    { [columns |-> <<"Date", "Open", "High", "Low", "Close", "Volume">>, tz |-> FALSE],
      [columns |-> <<"Date", "Open", "High", "Low", "Close", "Volume", "Ticker">>,
       tz |-> FALSE],
      [columns |-> <<"Date", "Open", "High", "Low", "Close", "Volume", "Ticker">>,
       tz |-> TRUE],
      [columns |-> <<"Open", "High", "Low", "Close", "Volume">>, tz |-> FALSE],
      [columns |-> <<"Date", "Open", "High", "Low", "Close">>, tz |-> FALSE] }

\* a row of a frame; dates are days, counted from the day the clock starts
QcRow(d, o, h, l, c, v) ==
    [Date |-> d, Open |-> o, High |-> h, Low |-> l, Close |-> c, Volume |-> v,
     Ticker |-> Val("BBCA.JK")]

\* Rows that are not ordinary bars: High below Low, Close above High, a
\* negative volume on a bar dated tomorrow, no trade, a missing volume, a
\* blank line, a line with the opening and the high only.
QcSpecialRows ==
    { QcRow(Val(-10), Val(1), Val(1), Val(2), Val(1), Val(5)),
      QcRow(Val(-10), Val(1), Val(2), Val(1), Val(3), Val(5)),
      QcRow(Val(1), Val(1), Val(2), Val(1), Val(2), Val(-1)),
      QcRow(Val(-10), Val(1), Val(2), Val(1), Val(2), Val(0)),
      QcRow(Val(-10), Val(1), Val(2), Val(1), Val(2), NaN),
      [Date |-> NaN, Open |-> NaN, High |-> NaN, Low |-> NaN, Close |-> NaN,
       Volume |-> NaN, Ticker |-> [null |-> TRUE, v |-> ""]],
      QcRow(Val(-10), Val(1), Val(2), NaN, NaN, NaN) }

\* the j-th ordinary bar: sound, dated yesterday, closing at 1 and 4 in turn
QcFillRow(j) ==
    QcRow(Val(-1), Val(1), Val(4), Val(1), Val(IF j % 2 = 1 THEN 1 ELSE 4), Val(5))

\* how a frame starts: with no such row, with one, with the High below Low
\* twice, or with two rows breaking different rules
QcTops ==
    {<<>>} \cup {<<r>> : r \in QcSpecialRows}
    \cup { <<QcRow(Val(-10), Val(1), Val(1), Val(2), Val(1), Val(5)),
             QcRow(Val(-10), Val(1), Val(1), Val(2), Val(1), Val(5))>>,
           <<QcRow(Val(-10), Val(1), Val(2), Val(1), Val(3), Val(5)),
             QcRow(Val(1), Val(1), Val(2), Val(1), Val(2), Val(-1))>>,
           <<QcRow(Val(-10), Val(1), Val(2), Val(1), Val(3), Val(5)),
             QcRow(Val(-10), Val(1), Val(2), Val(1), Val(3), Val(-1))>> }

QcFrames ==
    { [columns |-> layout.columns, tz |-> layout.tz,
       rows |-> top \o [j \in 1..k |-> QcFillRow(j)]] :
         layout \in QcLayouts, top \in QcTops, k \in 0..MaxFill }

\* no frame: the scripts that build no checker
NoFrame == [columns |-> <<>>, tz |-> FALSE, rows |-> <<>>]

\* 'c' in self.data.columns
HasColumn(data, c) == \E i \in 1..Len(data.columns) : data.columns[i] = c

\* a comparison that also takes equal values for a breach
CellLt_OrEqual(a, b) == ~a.null /\ ~b.null /\ a.v <= b.v

\* a < b on two cells as pandas compares them: False when one is missing
CellLt(a, b) == ~a.null /\ ~b.null /\ a.v < b.v

RECURSIVE SumFloats(_, _)
\* the sum of the floats of q, added one after the other to acc
SumFloats(q, acc) ==
    IF q = <<>> THEN acc ELSE SumFloats(Tail(q), FAdd(acc, Head(q)))

\* (1 - missing_rows / total_rows) * 100 of one column
Completeness(missing, total_rows) ==
    FMulInt(FOneMinus(IF total_rows = 0 THEN FNaN
                      ELSE FDivInt(FFromInt(missing), total_rows)), 100)

\* completeness.mean() of the columns' values, in the order of the columns
FMean(q) == FDivInt(SumFloats(Tail(q), Head(q)), Len(q))

\* the entry of self.report for the columns' values
CompletenessEntry(columns, perColumn, mean) ==
    [score |-> mean,
     details |-> [c \in {columns[i] : i \in 1..Len(columns)} |->
                     perColumn[CHOOSE i \in 1..Len(columns) : columns[i] = c]],
     passed |-> FGeInt(mean, CompletenessTarget)]

CompletenessOf(columns, perColumn) ==
    CompletenessEntry(columns, perColumn, FMean(perColumn))

\* check_completeness: the entry put in self.report
CheckCompleteness(data) ==
    CompletenessOf(data.columns,
        [i \in 1..Len(data.columns) |->
            Completeness(Cardinality({j \in 1..Len(data.rows) :
                                        data.rows[j][data.columns[i]].null}),
                         Len(data.rows))])

\* a check that stops at the first rule a row breaks
CheckConsistency_FirstRuleOnly(data) ==
    LET rows == data.rows
        n == Len(rows)
        invalid_hl == {j \in 1..n : ~rows[j].High.null /\ ~rows[j].Low.null
                                     /\ rows[j].High.v < rows[j].Low.v}
        invalid_close == {j \in 1..n : \/ /\ ~rows[j].Close.null /\ ~rows[j].Low.null
                                           /\ rows[j].Close.v < rows[j].Low.v
                                        \/ /\ ~rows[j].Close.null /\ ~rows[j].High.null
                                           /\ rows[j].High.v < rows[j].Close.v}
        negative_vol == {j \in 1..n : ~rows[j].Volume.null /\ rows[j].Volume.v < 0}
    IN IF \E c \in {"High", "Low", "Close", "Volume"} :
              \A i \in 1..Len(data.columns) : data.columns[i] # c
       THEN Raised
       ELSE IF invalid_hl # {}
       THEN [passed |-> FALSE,
             issues |-> <<[rule |-> "High < Low", rows |-> Cardinality(invalid_hl)]>>]
       ELSE IF invalid_close # {}
       THEN [passed |-> FALSE,
             issues |-> <<[rule |-> "Close outside [Low,High]",
                           rows |-> Cardinality(invalid_close)]>>]
       ELSE IF negative_vol # {}
       THEN [passed |-> FALSE,
             issues |-> <<[rule |-> "Negative volume", rows |-> Cardinality(negative_vol)]>>]
       ELSE [passed |-> TRUE, issues |-> <<>>]

\* check_consistency: the entry put in self.report, or the KeyError raised
\* when a column the rules read is not in the frame
CheckConsistency(data) ==
    LET rows == data.rows
        n == Len(rows)
        invalid_hl == {j \in 1..n : CellLt(rows[j].High, rows[j].Low)}
        invalid_close == {j \in 1..n : \/ CellLt(rows[j].Close, rows[j].Low)
                                        \/ CellLt(rows[j].High, rows[j].Close)}
        negative_vol == {j \in 1..n : CellLt(rows[j].Volume, Val(0))}
        found == << [rule |-> "High < Low", rows |-> Cardinality(invalid_hl)],
                    [rule |-> "Close outside [Low,High]", rows |-> Cardinality(invalid_close)],
                    [rule |-> "Negative volume", rows |-> Cardinality(negative_vol)] >>
        inconsistencies == SelectSeq(found, LAMBDA f : f.rows > 0)
    IN IF \E c \in {"High", "Low", "Close", "Volume"} : ~HasColumn(data, c)
       THEN Raised
       ELSE [passed |-> Len(inconsistencies) = 0, issues |-> inconsistencies]

\* a check that still passes a frame whose latest bar is two days old
CheckTimeliness_TwoDaysPass(data, now) ==
    LET dates == {data.rows[j].Date.v : j \in {i \in 1..Len(data.rows) : ~data.rows[i].Date.null}}
        latest_date == CHOOSE d \in dates : \A x \in dates : x <= d
        days_old == (now - 2 * latest_date) \div 2
    IN IF \A i \in 1..Len(data.columns) : data.columns[i] # "Date"
       THEN [passed |-> FALSE, reason |-> "No date column"]
       ELSE IF data.tz \/ dates = {} THEN Raised
       ELSE [latest_date |-> latest_date, days_old |-> days_old,
             passed |-> days_old <= MaxDaysOld]

\* check_timeliness at time now: the entry put in self.report, or the error
\* raised (a time-zone-aware date subtracted from datetime.now(), or NaT as
\* the latest date when no row has one)
CheckTimeliness(data, now) ==
    LET dates == {data.rows[j].Date.v : j \in {i \in 1..Len(data.rows) : ~data.rows[i].Date.null}}
        latest_date == CHOOSE d \in dates : \A x \in dates : x <= d
        days_old == (now - 2 * latest_date) \div 2
    IN IF ~HasColumn(data, "Date")
       THEN [passed |-> FALSE, reason |-> "No date column"]
       ELSE IF data.tz \/ dates = {} THEN Raised
       ELSE [latest_date |-> latest_date, days_old |-> days_old,
             passed |-> days_old < MaxDaysOld]

RECURSIVE Ffill(_, _)
\* the cells of q, each missing one replaced by the last present one before
\* it (last, at the start)
Ffill(q, last) ==
    IF q = <<>> THEN <<>>
    ELSE LET cur == IF Head(q).null THEN last ELSE Head(q)
         IN <<cur>> \o Ffill(Tail(q), cur)

\* abs(x) of an integer
Abs(x) == IF x < 0 THEN -x ELSE x

\* a check that fails a frame for a day without trade
CheckAccuracy_NoTradeFails(data, pads) ==
    LET n == Len(data.rows)
        raw == [j \in 1..n |-> data.rows[j].Close]
        close == IF pads THEN Ffill(raw, NaN) ELSE raw
        extreme_returns ==
            {j \in 2..n : /\ ~close[j].null /\ ~close[j - 1].null
                          /\ 2 * Abs(close[j].v - close[j - 1].v) > Abs(close[j - 1].v)}
        zero_volume == {j \in 1..n : ~data.rows[j].Volume.null /\ data.rows[j].Volume.v = 0}
    IN IF \E c \in {"Close", "Volume"} : \A i \in 1..Len(data.columns) : data.columns[i] # c
       THEN Raised
       ELSE [extreme_returns_count |-> Cardinality(extreme_returns),
             zero_volume_days |-> Cardinality(zero_volume),
             passed |-> /\ Cardinality(extreme_returns) < MaxExtremeReturns
                        /\ zero_volume = {}]

\* check_accuracy: the entry put in self.report, or the KeyError raised.
\* pads tells whether pct_change fills missing closes forward first.
CheckAccuracy(data, pads) ==
    LET n == Len(data.rows)
        raw == [j \in 1..n |-> data.rows[j].Close]
        close == IF pads THEN Ffill(raw, NaN) ELSE raw
        extreme_returns ==
            {j \in 2..n : /\ ~close[j].null /\ ~close[j - 1].null
                          /\ 2 * Abs(close[j].v - close[j - 1].v) > Abs(close[j - 1].v)}
        zero_volume == {j \in 1..n : ~data.rows[j].Volume.null /\ data.rows[j].Volume.v = 0}
    IN IF ~HasColumn(data, "Close") \/ ~HasColumn(data, "Volume") THEN Raised
       ELSE [extreme_returns_count |-> Cardinality(extreme_returns),
             zero_volume_days |-> Cardinality(zero_volume),
             passed |-> Cardinality(extreme_returns) < MaxExtremeReturns]

\* a report that says PASS as soon as one check passed
GenerateReport_AnyCheck(report, now) ==
    [overall_status |-> IF \E k \in DOMAIN report : report[k].passed THEN "PASS" ELSE "FAIL",
     timestamp |-> now,
     checks |-> report]

\* _generate_report at time now.  'checks' is self.report itself, not a copy
\* of it: QcReturn keeps it equal to self.report in every report handed out.
GenerateReport(report, now) ==
    [overall_status |-> IF \A k \in DOMAIN report : report[k].passed THEN "PASS" ELSE "FAIL",
     timestamp |-> now,
     checks |-> report]

\* self.report after the checks gave c1 to c4, up to the first that raised
ReportAfter(report, c1, c2, c3, c4) ==
    IF c2 = Raised
    THEN [report |-> DictSet(report, "completeness", c1), raised |-> TRUE]
    ELSE IF c3 = Raised
    THEN [report |-> DictSet(DictSet(report, "completeness", c1), "consistency", c2),
          raised |-> TRUE]
    ELSE IF c4 = Raised
    THEN [report |-> DictSet(DictSet(DictSet(report, "completeness", c1),
                                     "consistency", c2), "timeliness", c3),
          raised |-> TRUE]
    ELSE [report |-> DictSet(DictSet(DictSet(DictSet(report, "completeness", c1),
                                             "consistency", c2), "timeliness", c3),
                             "accuracy", c4),
          raised |-> FALSE]

\* the four checks of run_all_checks in their order, each putting its entry
\* in self.report, up to the first that raises
RunChecks(report, data, now, pads) ==
    ReportAfter(report, CheckCompleteness(data), CheckConsistency(data),
                CheckTimeliness(data, now), CheckAccuracy(data, pads))

\* no report: run_all_checks raised
NoReport == [overall_status |-> "", timestamp |-> 0, checks |-> <<>>]

\* what a call of run_all_checks at time now gave: the report of
\* _generate_report, unless a check raised
CallRecord(report, raised, now) ==
    [at |-> now, raised |-> raised,
     ret |-> IF raised THEN NoReport ELSE GenerateReport(report, now)]

\* a report handed out earlier after self.report changed: its 'checks' is
\* that same dictionary
Aliased(call, report) ==
    IF call.raised THEN call ELSE [call EXCEPT !.ret.checks = report]

\* run_all_checks leaves self.report as the checks left it, and returns
QcReturn(run) ==
    /\ qc_report' = run.report
    /\ qc_calls' = Append([i \in 1..Len(qc_calls) |-> Aliased(qc_calls[i], run.report)],
                          CallRecord(run.report, run.raised, qc_now))

\* the state of a checker nobody has built
QcIdle ==
    /\ qc_data = NoFrame
    /\ qc_pads = FALSE
    /\ qc_now = 0
    /\ qc_ticks = 0
    /\ qc_report = <<>>
    /\ qc_calls = <<>>

\* checker.run_all_checks()
QcRunAllChecks ==
    /\ prog = "checker"
    /\ Len(qc_calls) < MaxRuns
    /\ QcReturn(RunChecks(qc_report, qc_data, qc_now, qc_pads))
    /\ UNCHANGED <<qc_data, qc_pads, qc_now, qc_ticks>>
    /\ RunsChecker

\* half a day passes before a call of run_all_checks
QcTick ==
    /\ RunsChecker
    /\ Len(qc_calls) < MaxRuns
    /\ qc_ticks < MaxTicks
    /\ qc_now' = qc_now + 1
    /\ qc_ticks' = qc_ticks + 1
    /\ UNCHANGED <<qc_data, qc_pads, qc_report, qc_calls>>

CheckerNext ==
    \/ QcRunAllChecks
    \/ QcTick

(***************************************************************************)
(* load_manual_csv.py: detect_csv_format                                   *)
(***************************************************************************)
\* c.lower()
Lower(s) ==
    [i \in 1..Len(s) |->
        IF \E k \in 1..Len(Uppercase) : Uppercase[k] = s[i]
        THEN Lowercase[CHOOSE k \in 1..Len(Uppercase) : Uppercase[k] = s[i]]
        ELSE s[i]]

\* The column names of four kinds of file, in lower case and single-spaced:
\* a Yahoo export, a Stooq export, a file of the IDX site, and a file of
\* none of these.
DtLayouts ==
    { <<<<"d", "a", "t", "e">>,
        <<"o", "p", "e", "n">>,
        <<"h", "i", "g", "h">>,
        <<"l", "o", "w">>,
        <<"c", "l", "o", "s", "e">>,
        <<"a", "d", "j", " ", "c", "l", "o", "s", "e">>,
        <<"v", "o", "l", "u", "m", "e">>>>,
      <<<<"d", "a", "t", "e">>,
        <<"o", "p", "e", "n">>,
        <<"h", "i", "g", "h">>,
        <<"l", "o", "w">>,
        <<"c", "l", "o", "s", "e">>,
        <<"v", "o", "l", "u", "m", "e">>>>,
      <<<<"k", "o", "d", "e">>,
        <<"t", "a", "n", "g", "g", "a", "l">>,
        <<"p", "e", "n", "u", "t", "u", "p", "a", "n">>>>,
      <<<<"t", "a", "n", "g", "g", "a", "l">>,
        <<"h", "a", "r", "g", "a">>>> }

RECURSIVE Widen(_)
\* the name with every space doubled
Widen(s) ==
    IF s = <<>> THEN <<>>
    ELSE (IF Head(s) = " " THEN <<" ", " ">> ELSE <<Head(s)>>) \o Widen(Tail(s))

\* How a file writes its column names: as above, in capitals, with a space
\* before and after each name, or with wide gaps inside the names.
Spellings == {"plain", "capitals", "padded", "wide"}

Spell(columns, how) ==
    [i \in 1..Len(columns) |->
        CASE how = "capitals" -> Upper(columns[i])
          [] how = "padded" -> <<" ">> \o columns[i] \o <<" ">>
          [] how = "wide" -> Widen(columns[i])
          [] OTHER -> columns[i]]

\* detect_csv_format(df), of which only df.columns is read
DetectCsvFormat(columns) ==
    LET columns_lower == [i \in 1..Len(columns) |-> Lower(columns[i])]
        In(name) == \E i \in 1..Len(columns_lower) : columns_lower[i] = name
    IN IF In(<<"a", "d", "j", " ", "c", "l", "o", "s", "e">>)
          \/ In(<<"a", "d", "j", "_", "c", "l", "o", "s", "e">>)
       THEN "yahoo"
       ELSE IF In(<<"d", "a", "t", "e">>) /\ In(<<"o", "p", "e", "n">>) /\ Len(columns) = 6
       THEN "stooq"
       ELSE IF In(<<"k", "o", "d", "e">>) \/ In(<<"c", "o", "d", "e">>)
       THEN "idx"
       ELSE "unknown"

\* no frame: the scripts that never call detect_csv_format
DtIdle ==
    /\ dt_frames = <<>>
    /\ dt_out = <<>>

\* source = detect_csv_format(df), on the next frame
DtDetect ==
    /\ RunsDetect /\ Len(dt_out) < Len(dt_frames)
    /\ dt_out' = Append(dt_out, DetectCsvFormat(dt_frames[Len(dt_out) + 1]))
    /\ UNCHANGED dt_frames

(***************************************************************************)
(* selenium_scraper.py                                                     *)
(***************************************************************************)
\* stocks of main
SlStocks == <<"BBCA.JK", "GOTO.JK", "BUMI.JK", "BBRI.JK", "TLKM.JK">>

\* What scrape_yahoo_selenium(ticker, download_dir, driver) can do: return
\* a frame or None (it catches every Exception itself), or be interrupted
\* (KeyboardInterrupt, SystemExit), which nothing in main catches.  The
\* same for the time.sleep(3) that follows it.
ScrapeEnv ==
    {[kind |-> "frame", rows |-> n] : n \in 0..MaxRows}
    \cup {[kind |-> "None", rows |-> 0], [kind |-> "interrupt", rows |-> 0]}

\* a try statement without its finally clause: an exception leaves main at
\* once
LeaveTry_NoFinally(how) == IF how = "exception" THEN "raised" ELSE "finally"

\* `try: ... finally:` of main: the finally clause runs however the try
\* body is left
LeaveTry(how) == "finally"

\* the state of main before it is called
SlIdle ==
    /\ sl_pc = "idle"
    /\ sl_i = 1
    /\ sl_successful = <<>>
    /\ sl_pending = "none"
    /\ sl_ret = Pending
    /\ sl_log = <<>>

\* driver, download_dir = setup_driver(), or `return []` when it raises
SlSetup ==
    /\ RunsSelenium /\ sl_pc = "idle"
    /\ \E ok \in BOOLEAN :
          IF ok
          THEN /\ sl_log' = Append(sl_log, [op |-> "setup", ticker |-> "", session |-> 1])
               /\ sl_pc' = "loop"
               /\ UNCHANGED sl_ret
          ELSE /\ sl_pc' = "done"
               /\ sl_ret' = <<>>
               /\ UNCHANGED sl_log
    /\ UNCHANGED <<sl_i, sl_successful, sl_pending>>

\* one iteration of `for ticker in stocks` inside the try, and the end of
\* the loop
SlScrape ==
    /\ RunsSelenium /\ sl_pc = "loop"
    /\ IF sl_i > NumStocks
       THEN /\ sl_pc' = LeaveTry("end")
            /\ UNCHANGED <<sl_i, sl_successful, sl_pending, sl_log>>
       ELSE \E env \in ScrapeEnv, slept \in BOOLEAN :
               /\ sl_log' = Append(sl_log, [op |-> "scrape", ticker |-> SlStocks[sl_i],
                                             session |-> 1])
               /\ sl_successful' =
                     IF env.kind = "frame" /\ env.rows > 0
                     THEN Append(sl_successful,
                                 [ticker |-> SlStocks[sl_i], records |-> env.rows])
                     ELSE sl_successful
               /\ IF env.kind = "interrupt" \/ ~slept
                  THEN /\ sl_pending' = "KeyboardInterrupt"
                       /\ sl_pc' = LeaveTry("exception")
                       /\ UNCHANGED sl_i
                  ELSE /\ sl_i' = sl_i + 1
                       /\ UNCHANGED <<sl_pc, sl_pending>>
    /\ UNCHANGED sl_ret

\* finally: driver.quit(), which may itself raise; then the exception that
\* left the try body, if any, goes on
SlQuit ==
    /\ RunsSelenium /\ sl_pc = "finally"
    /\ sl_log' = Append(sl_log, [op |-> "quit", ticker |-> "", session |-> 1])
    /\ \E ok \in BOOLEAN :
          IF ok /\ sl_pending = "none"
          THEN sl_pc' = "summary" /\ UNCHANGED sl_pending
          ELSE /\ sl_pc' = "raised"
               /\ sl_pending' = IF ok THEN sl_pending ELSE "WebDriverException"
    /\ UNCHANGED <<sl_i, sl_successful, sl_ret>>

\* the summary: the combined file is written (which may raise) and
\* successful returned, or [] when nothing was scraped
SlSummary ==
    /\ RunsSelenium /\ sl_pc = "summary"
    /\ \E saved \in BOOLEAN :
          IF sl_successful # <<>> /\ ~saved
          THEN /\ sl_pc' = "raised"
               /\ sl_pending' = "OSError"
               /\ UNCHANGED sl_ret
          ELSE /\ sl_pc' = "done"
               /\ sl_ret' = sl_successful
               /\ UNCHANGED sl_pending
    /\ UNCHANGED <<sl_i, sl_successful, sl_log>>

SeleniumNext ==
    \/ SlSetup
    \/ SlScrape
    \/ SlQuit
    \/ SlSummary

(***************************************************************************)
(* professional_scraper.py                                                 *)
(***************************************************************************)
\* the state of final_data_acquisition before it is called
FaIdle ==
    /\ fa_pc = "idle"
    /\ fa_ret = [data |-> Pending, method |-> ""]
    /\ fa_log = <<>>

\* crumb = scraper.get_crumb_and_cookie(ticker): a crumb, or None (not on
\* the page, or the request failed)
FaGetCrumb ==
    /\ RunsFinal /\ fa_pc = "idle"
    /\ fa_log' = Append(fa_log, "get_crumb_and_cookie")
    /\ \E crumb \in BOOLEAN : fa_pc' = IF crumb THEN "download" ELSE "method2"
    /\ UNCHANGED fa_ret

\* df = scraper.download_with_crumb(...): a frame with rows, or None;
\* `if df is not None: return df, "professional_scraping"`
FaDownload ==
    /\ RunsFinal /\ fa_pc = "download"
    /\ fa_log' = Append(fa_log, "download_with_crumb")
    /\ \E rows \in 0..MaxRows :
          IF rows > 0
          THEN /\ fa_ret' = [data |-> DataFrame(rows), method |-> "professional_scraping"]
               /\ fa_pc' = "done"
          ELSE /\ fa_pc' = "method2"
               /\ UNCHANGED fa_ret

\* Methods 2 to 4: the Alpha Vantage and Twelve Data blocks print that they
\* are skipped (no API key) and call nothing, the manual guide is printed;
\* return None, "manual_required"
FaManual ==
    /\ RunsFinal /\ fa_pc = "method2"
    /\ fa_ret' = [data |-> None, method |-> "manual_required"]
    /\ fa_pc' = "done"
    /\ UNCHANGED fa_log

FinalNext ==
    \/ FaGetCrumb
    \/ FaDownload
    \/ FaManual

(***************************************************************************)
(* load_manual_csv.py: load_manual_csvs                                    *)
(***************************************************************************)
\* The contents data/raw/manual can have: up to MaxManualFiles files of
\* different names, each unreadable or a Yahoo export or a file with a
\* Ticker column, of at most one row whose cells are numbers or missing.
ManualDirs ==
    LET rows == {r \in FileRows : r.date.v < 2 /\ r.close \in {Val(2), NaN}}
        headers == {h \in Headers : Len(h) = 7 /\ h[1].name = "Date"}
        files == [readable : {TRUE}, stem : Stems, header : headers,
                  rows : SeqsUpTo(rows, 1)]
                 \cup [readable : {FALSE}, stem : Stems, header : {<<>>}, rows : {<<>>}]
    IN {q \in SeqsUpTo(files, MaxManualFiles) :
           \A i \in 1..Len(q), j \in 1..Len(q) : i # j => q[i].stem # q[j].stem}

RECURSIVE Concat(_)
\* pd.concat(all_data, ignore_index=True): the rows of the frames one after
\* the other; the columns of the first frame, then those the later frames
\* add; NaN where a frame lacks a column
Concat(frames) ==
    IF Len(frames) = 1 THEN frames[1]
    ELSE LET head == Concat(SubSeq(frames, 1, Len(frames) - 1))
             last == frames[Len(frames)]
             old == {head.columns[i] : i \in 1..Len(head.columns)}
             new == {last.columns[i] : i \in 1..Len(last.columns)}
             columns == head.columns \o SelectSeq(last.columns, LAMBDA c : c \notin old)
             Wide(r, has) == [c \in old \cup new |-> IF c \in has THEN r[c] ELSE NaN]
         IN [tag |-> "DataFrame", columns |-> columns,
             rows |-> [i \in 1..Len(head.rows) |-> Wide(head.rows[i], old)]
                      \o [i \in 1..Len(last.rows) |-> Wide(last.rows[i], new)]]

\* combined_df['Ticker'].unique(): the tickers in the order they first
\* appear
UniqueTickers(rows) ==
    LET first == {i \in 1..Len(rows) : \A j \in 1..(i - 1) : rows[j]["Ticker"] # rows[i]["Ticker"]}
    IN [k \in 1..Cardinality(first) |->
           rows[CHOOSE i \in first : Cardinality({j \in first : j <= i}) = k]["Ticker"]]

\* The three log lines after run_all_checks can be formatted: they read
\* report['overall_status'], report['completeness']['score'] and
\* report['consistency']['pass'], each a KeyError when the key is not there.
ReportReadable(report) ==
    /\ "overall_status" \in DOMAIN report
    /\ "completeness" \in DOMAIN report
    /\ "score" \in DOMAIN report["completeness"]
    /\ "consistency" \in DOMAIN report
    /\ "pass" \in DOMAIN report["consistency"]

\* the state of load_manual_csvs while it is not running
LmIdle ==
    /\ lm_pc = "idle"
    /\ lm_dir = FALSE
    /\ lm_files = <<>>
    /\ lm_combined = NzNone
    /\ lm_qc = <<>>
    /\ lm_error = "none"
    /\ lm_ret = Pending

\* all_data and what follows from it: None when no file gave a row,
\* otherwise combined_df, written to manual_stocks_combined.csv (which may
\* raise)
LmCombine(all_data) ==
    IF all_data = <<>>
    THEN /\ lm_pc' = "done"
         /\ lm_ret' = NzNone
         /\ UNCHANGED <<lm_combined, lm_error>>
    ELSE /\ lm_combined' = Concat(all_data)
         /\ \E saved \in BOOLEAN :
               IF saved THEN lm_pc' = "qc" /\ UNCHANGED lm_error
               ELSE lm_pc' = "raised" /\ lm_error' = "OSError"
         /\ UNCHANGED lm_ret

\* load_manual_csvs up to the quality checks: the directory and its files,
\* normalize_csv on each, the frames with rows combined and saved
LmLoad ==
    /\ prog = "load" /\ lm_pc = "idle"
    /\ LmCombine(SelectSeq([i \in 1..Len(lm_files) |-> NormalizeCsv(lm_files[i])],
                           LAMBDA df : df.tag = "DataFrame" /\ Len(df.rows) > 0))
    /\ UNCHANGED <<lm_dir, lm_files, lm_qc>>
    /\ RunsLoad

\* what follows report = checker.run_all_checks() for ticker t: the
\* exception of a check goes on; a report is read for the log
LmLog(t, run) ==
    IF run.raised
    THEN /\ lm_qc' = Append(lm_qc, [ticker |-> t, ended |-> "run_all_checks raised"])
         /\ lm_pc' = "raised"
         /\ lm_error' = "checker"
    ELSE IF ReportReadable(GenerateReport(run.report, 0))
    THEN /\ lm_qc' = Append(lm_qc, [ticker |-> t, ended |-> "logged"])
         /\ UNCHANGED <<lm_pc, lm_error>>
    ELSE /\ lm_qc' = Append(lm_qc, [ticker |-> t, ended |-> "KeyError"])
         /\ lm_pc' = "raised"
         /\ lm_error' = "KeyError"

\* the frame of the rows of one ticker, combined_df[combined_df['Ticker'] == ticker]
StockFrame(combined, t) ==
    [columns |-> combined.columns, tz |-> FALSE,
     rows |-> SelectSeq(combined.rows, LAMBDA r : r["Ticker"] = t)]

\* one iteration of `for ticker in combined_df['Ticker'].unique()`, and
\* `return combined_df` after the last
LmCheckTicker ==
    /\ prog = "load" /\ lm_pc = "qc"
    /\ IF Len(lm_qc) = Len(UniqueTickers(lm_combined.rows))
       THEN /\ lm_pc' = "done"
            /\ lm_ret' = lm_combined
            /\ UNCHANGED <<lm_qc, lm_error>>
       ELSE /\ \E pads \in BOOLEAN :
                  LmLog(UniqueTickers(lm_combined.rows)[Len(lm_qc) + 1],
                        RunChecks(<<>>,
                                  StockFrame(lm_combined,
                                             UniqueTickers(lm_combined.rows)[Len(lm_qc) + 1]),
                                  0, pads))
            /\ UNCHANGED lm_ret
    /\ UNCHANGED <<lm_dir, lm_files, lm_combined>>
    /\ RunsLoad

LoadNext ==
    \/ LmLoad
    \/ LmCheckTicker

(***************************************************************************)
(* A run: one script, from its start.                                      *)
(***************************************************************************)
InitAcquire ==
    /\ prog = "acquire"
    /\ AcqIdle /\ FtIdle /\ PlIdle /\ AltIdle /\ AvIdle /\ NzIdle(NoFile) /\ ScIdle /\ LmIdle /\ FaIdle /\ SlIdle /\ DtIdle
    /\ QcIdle

InitPipeline ==
    /\ prog = "pipeline"
    /\ AcqIdle /\ FtIdle /\ PlIdle /\ AltIdle /\ AvIdle /\ NzIdle(NoFile) /\ ScIdle /\ LmIdle /\ FaIdle /\ SlIdle /\ DtIdle
    /\ QcIdle

\* fetch_stock_data called on its own with some max_retries
InitFetch ==
    /\ prog = "fetch"
    /\ AcqIdle /\ PlIdle /\ AltIdle /\ AvIdle /\ NzIdle(NoFile) /\ ScIdle /\ LmIdle /\ FaIdle /\ SlIdle /\ DtIdle
    /\ QcIdle
    /\ ft_pc = "loop"
    /\ ft_max_retries \in 0..MaxRetriesArg
    /\ ft_attempt = 0
    /\ ft_calls = <<>>
    /\ ft_ret = FtNothing

InitAlt ==
    /\ prog = "alt"
    /\ AcqIdle /\ FtIdle /\ PlIdle /\ AltIdle /\ AvIdle /\ NzIdle(NoFile) /\ ScIdle /\ LmIdle /\ FaIdle /\ SlIdle /\ DtIdle
    /\ QcIdle

InitAlpha ==
    /\ prog = "alpha"
    /\ AcqIdle /\ FtIdle /\ PlIdle /\ AltIdle /\ AvIdle /\ NzIdle(NoFile) /\ ScIdle /\ LmIdle /\ FaIdle /\ SlIdle /\ DtIdle
    /\ QcIdle

InitNormalize ==
    /\ prog = "normalize"
    /\ AcqIdle /\ FtIdle /\ PlIdle /\ AltIdle /\ AvIdle
    /\ ScIdle /\ LmIdle /\ FaIdle /\ SlIdle /\ DtIdle /\ QcIdle
    /\ \E file \in NzFiles : NzIdle(file)

InitSchema ==
    /\ prog = "schema"
    /\ AcqIdle /\ FtIdle /\ PlIdle /\ AltIdle /\ AvIdle /\ NzIdle(NoFile) /\ ScIdle /\ LmIdle /\ FaIdle /\ SlIdle /\ DtIdle
    /\ QcIdle

\* a checker built on some frame, under some pandas
InitChecker ==
    /\ prog = "checker"
    /\ AcqIdle /\ FtIdle /\ PlIdle /\ AltIdle /\ AvIdle /\ NzIdle(NoFile) /\ ScIdle /\ LmIdle /\ FaIdle /\ SlIdle /\ DtIdle
    /\ qc_data \in QcFrames
    /\ qc_pads \in BOOLEAN
    /\ qc_now = 0
    /\ qc_ticks = 0
    /\ qc_report = <<>>
    /\ qc_calls = <<>>

\* detect_csv_format called on two frames, each some layout in some spelling
InitDetect ==
    /\ prog = "detect"
    /\ AcqIdle /\ FtIdle /\ PlIdle /\ AltIdle /\ AvIdle /\ NzIdle(NoFile) /\ ScIdle /\ LmIdle /\ FaIdle /\ SlIdle
    /\ QcIdle
    /\ \E a \in DtLayouts, b \in DtLayouts, how_a \in Spellings, how_b \in Spellings :
          dt_frames = <<Spell(a, how_a), Spell(b, how_b)>>
    /\ dt_out = <<>>

InitSelenium ==
    /\ prog = "selenium"
    /\ AcqIdle /\ FtIdle /\ PlIdle /\ AltIdle /\ AvIdle /\ NzIdle(NoFile) /\ ScIdle /\ LmIdle /\ FaIdle /\ DtIdle
    /\ QcIdle /\ SlIdle

InitFinal ==
    /\ prog = "final"
    /\ AcqIdle /\ FtIdle /\ PlIdle /\ AltIdle /\ AvIdle /\ NzIdle(NoFile) /\ ScIdle /\ LmIdle /\ DtIdle
    /\ QcIdle /\ SlIdle /\ FaIdle

\* load_manual_csvs on some content of data/raw/manual
InitLoad ==
    /\ prog = "load"
    /\ AcqIdle /\ FtIdle /\ PlIdle /\ AltIdle /\ AvIdle /\ NzIdle(NoFile) /\ ScIdle /\ DtIdle
    /\ QcIdle /\ SlIdle /\ FaIdle
    /\ lm_pc = "idle"
    /\ lm_dir \in BOOLEAN
    /\ lm_files \in (IF lm_dir THEN ManualDirs ELSE {<<>>})
    /\ lm_combined = NzNone
    /\ lm_qc = <<>>
    /\ lm_error = "none"
    /\ lm_ret = Pending

Init == InitAcquire \/ InitPipeline \/ InitFetch \/ InitAlt \/ InitAlpha
        \/ InitNormalize \/ InitSchema \/ InitChecker \/ InitDetect
        \/ InitSelenium \/ InitFinal \/ InitLoad

Next == AcquireNext \/ PipelineNext \/ AltNext \/ AlphaNext \/ NzNormalize
        \/ SchemaNext \/ CheckerNext \/ DtDetect \/ SeleniumNext
        \/ FinalNext \/ LoadNext

Spec == Init /\ [][Next]_vars

\* acquire_real_data alone, every step of the sequential function eventually taken
AcquireFairSpec == InitAcquire /\ [][AcquireNext]_vars /\ WF_vars(AcquireNext)

\* fetch_stock_data alone: stock.history has a timeout, so every call of it
\* comes back and the loop takes its next step
FetchFairSpec == InitFetch /\ [][FetchNext]_vars /\ WF_vars(FetchNext)

(***************************************************************************)
(* Properties of acquire_real_data.                                        *)
(***************************************************************************)
\* the adapter invocations made for the k-th stock, in order
CallsOf(k) == SelectSeq(acq_calls, LAMBDA c : c.stock = k)

\* the entries of results['successful'] / results['failed'] of a ticker
SuccessfulOf(t) ==
    {j \in 1..Len(acq_results.successful) : acq_results.successful[j].ticker = t}

FailedOf(t) == {j \in 1..Len(acq_results.failed) : acq_results.failed[j] = t}

\* C1: for every ticker the adapter invocations are a prefix of
\* [investpy, yahoo_direct]; yahoo_direct is invoked only after investpy has
\* returned without data; no adapter is invoked for a ticker after one
\* returned data; at most one call is in flight at any time.
C1_PriorityOrderPrefix ==
    /\ \A k \in 1..NumStocks :
          LET cs == CallsOf(k) IN
          /\ Len(cs) <= 2
          /\ Len(cs) >= 1 => cs[1].adapter = "investpy"
          /\ Len(cs) = 2 => cs[2].adapter = "yahoo_direct" /\ cs[1].result = None
          /\ \A j \in 1..Len(cs) : cs[j].result.tag = "DataFrame" => j = Len(cs)
    /\ Cardinality({j \in 1..Len(acq_calls) : acq_calls[j].result = Pending}) <= 1
    /\ \A j \in 1..Len(acq_calls) : acq_calls[j].result = Pending => j = Len(acq_calls)

\* the run is over; stock 1 fell through to yahoo_direct, stock 2 got its data
\* from investpy and yahoo_direct was not invoked for it
C1_Witness ==
    /\ acq_pc = "done"
    /\ Len(CallsOf(1)) = 2
    /\ Len(CallsOf(2)) = 1
    /\ CallsOf(2)[1].result.tag = "DataFrame"

\* the attempt records the returned results hold for a ticker: its entries of
\* 'successful' (adapter and outcome) followed by its entries of 'failed'
AcqAttemptRecords(t) ==
    [j \in 1..Cardinality(SuccessfulOf(t)) |->
        <<acq_results.successful[CHOOSE m \in SuccessfulOf(t) : TRUE].method, "Success">>]
    \o [j \in 1..Cardinality(FailedOf(t)) |-> <<"all", "Failure">>]

\* C2: when investpy fails and yahoo_direct succeeds for a ticker, the
\* returned results hold exactly two attempt records for it, a failure of
\* investpy then a success of yahoo_direct, and the ticker ends successful
\* via yahoo_direct.
C2_TwoAttemptRecords ==
    acq_pc = "done" =>
        \A k \in 1..NumStocks :
            LET cs == CallsOf(k)
                t == Ticker(Stocks[k]) IN
            (Len(cs) = 2 /\ cs[1].result = None /\ cs[2].result.tag = "DataFrame") =>
                /\ AcqAttemptRecords(t) =
                       << <<"investpy", "Failure">>, <<"yahoo_direct", "Success">> >>
                /\ \E j \in SuccessfulOf(t) :
                       acq_results.successful[j].method = "yahoo_direct"

\* C3: when acquire_real_data returns, every configured ticker is in exactly
\* one of 'successful' and 'failed'; in 'successful' iff some adapter returned
\* at least one record, with the method of the first adapter that did and a
\* record count >= 1; in 'failed' iff every adapter was tried and failed or
\* returned zero records.
C3_SuccessfulXorFailed ==
    acq_pc = "done" =>
        \A k \in 1..NumStocks :
            LET cs == CallsOf(k)
                t == Ticker(Stocks[k])
                got == {j \in 1..Len(cs) : cs[j].event = "frame" /\ cs[j].result.rows >= 1}
                first == CHOOSE j \in got : \A m \in got : j <= m
            IN
            /\ Cardinality(SuccessfulOf(t)) + Cardinality(FailedOf(t)) = 1
            /\ (SuccessfulOf(t) # {}) <=> (got # {})
            /\ \A j \in SuccessfulOf(t) :
                  /\ acq_results.successful[j].method = cs[first].adapter
                  /\ acq_results.successful[j].records = cs[first].result.rows
                  /\ acq_results.successful[j].records >= 1
            /\ (FailedOf(t) # {}) <=>
                  /\ {cs[j].adapter : j \in 1..Len(cs)} = {"investpy", "yahoo_direct"}
                  /\ \A j \in 1..Len(cs) : cs[j].event # "frame"

\* a finished run with one ticker successful via yahoo_direct after investpy
\* returned an empty frame, and one ticker failed after both adapters
C3_Witness ==
    /\ acq_pc = "done"
    /\ \E j \in 1..Len(acq_results.successful) :
          acq_results.successful[j].method = "yahoo_direct"
    /\ \E j \in 1..Len(acq_calls) : acq_calls[j].event = "empty"
    /\ Len(acq_results.failed) >= 1

\* what holds of the results of a finished run, whatever the adapters did
C4_AtDone ==
    acq_pc = "done" =>
        /\ \A k \in 1..NumStocks :
              /\ CallsOf(k) # <<>>
              /\ SuccessfulOf(Ticker(Stocks[k])) # {} \/ FailedOf(Ticker(Stocks[k])) # {}
        /\ Len(acq_results.manual_instructions) = Len(acq_results.failed)
        /\ \A j \in 1..Len(acq_results.failed) :
              acq_results.manual_instructions[j] =
                  TryIdxWebsiteScraping(acq_results.failed[j])

C5_AdapterErrorsContained ==
    /\ acq_pc # "crashed"
    /\ \A j \in 1..Len(acq_calls) :
          acq_calls[j].event = "exception" => acq_calls[j].result = None
    /\ \A k \in 1..NumStocks :
          LET cs == CallsOf(k) IN
          /\ (/\ Len(cs) >= 1
              /\ cs[1].event = "exception"
              /\ (acq_i > k \/ acq_pc \in {"in_yahoo", "save"}))
                => (Len(cs) = 2 /\ cs[2].adapter = "yahoo_direct")
          /\ (Len(cs) = 2 /\ cs[2].event = "exception" /\ acq_i > k)
                => FailedOf(Ticker(Stocks[k])) # {}
    /\ \A k \in 1..Len(pl_log) :
          LET t == TEST_TICKERS[k] IN
          /\ t \in DOMAIN pl_results.quality_reports
          /\ pl_log[k] = "fetch_raised" =>
                /\ pl_results.quality_reports[t].overall_status = "ERROR"
                /\ pl_results.quality_reports[t].error # ""
          /\ pl_log[k] = "ok" => pl_results.quality_reports[t].overall_status # "ERROR"
    /\ Len(pl_log) = pl_i - 1
    /\ pl_pc = "done" => Len(pl_log) = NumTestTickers

\* a finished acquire_real_data run whose first ticker saw an exception in
\* investpy and one in yahoo_direct, and whose next ticker was still tried
C5_Witness ==
    /\ acq_pc = "done"
    /\ Len(CallsOf(1)) = 2
    /\ CallsOf(1)[1].event = "exception"
    /\ CallsOf(1)[2].event = "exception"
    /\ CallsOf(2) # <<>>

\* a finished validate_data_pipeline run whose first ticker's fetch raised
\* and whose last ticker was processed cleanly
C5_PipelineCase ==
    /\ pl_pc = "done"
    /\ pl_log[1] = "fetch_raised"
    /\ pl_log[NumTestTickers] = "ok"

\* C6: no ticker's result is dropped without a recorded reason: when
\* acquire_real_data, validate_data_pipeline or try_alternative_sources.main
\* ends, every ticker it processed has its data record in the result or a
\* failure entry that says why (for acquire_real_data its place in 'failed'
\* with its manual instructions, for the pipeline its ERROR entry with the
\* error text, for main the saved manual guide).
C6_NoTickerDroppedSilently ==
    /\ acq_pc = "done" =>
          \A k \in 1..NumStocks :
             \/ SuccessfulOf(Ticker(Stocks[k])) # {}
             \/ \E j \in FailedOf(Ticker(Stocks[k])) :
                   acq_results.manual_instructions[j] =
                       TryIdxWebsiteScraping(Ticker(Stocks[k]))
    /\ pl_pc = "done" =>
          \A k \in 1..NumTestTickers :
             /\ TEST_TICKERS[k] \in DOMAIN pl_results.quality_reports
             /\ LET e == pl_results.quality_reports[TEST_TICKERS[k]] IN
                e.overall_status = "ERROR" => e.error # ""
    /\ alt_pc = "done" =>
          \A k \in 1..NumStocks :
             \/ \E j \in 1..Len(alt_successful) : alt_successful[j].ticker = AltStocks[k]
             \/ <<"MANUAL_DOWNLOAD_GUIDE.txt">> \in alt_files

\* C7: fetch_stock_data never retries after a non-transient failure: a call
\* of the source that failed with an authentication error or a not-found
\* error is the last call of the invocation.
C7_NoRetryAfterNonTransient ==
    \A j \in 1..Len(ft_calls) :
        ft_calls[j].error \in {"AuthError", "NotFound"} => j = Len(ft_calls)

\* C8: no window of AV_WINDOW seconds, its end points included, holds more
\* than AV_CALLS_PER_WINDOW requests of alphavantage main, whatever the
\* length of the ticker list and the duration of each request; and twice
\* that many requests take at least one full window.
C8_AlphaVantageRateLimit ==
    /\ \A i \in 1..Len(av_requests), j \in 1..Len(av_requests) :
          (i <= j /\ av_requests[j] - av_requests[i] <= AV_WINDOW)
              => j - i + 1 <= AV_CALLS_PER_WINDOW
    /\ Len(av_requests) >= 2 * AV_CALLS_PER_WINDOW
          => av_requests[2 * AV_CALLS_PER_WINDOW] - av_requests[1] >= AV_WINDOW

\* a finished run of ten requests that each took no time: the sixth request
\* came 5 * 13 seconds after the first
C8_Witness ==
    /\ av_pc = "done"
    /\ Len(av_requests) = 2 * AV_CALLS_PER_WINDOW
    /\ av_requests[AV_CALLS_PER_WINDOW + 1] - av_requests[1] = AV_CALLS_PER_WINDOW * WaitTime

\* pandas comparison of two cells: False when either is missing
CellLe(a, b) == ~a.null /\ ~b.null /\ a.v <= b.v

\* C9: every row of every series normalize_csv returns has
\* low <= close <= high, low <= high and volume >= 0.
C9_NormalizedBarsConsistent ==
    nz_out.tag = "DataFrame" =>
        \A j \in 1..Len(nz_out.rows) :
            LET r == nz_out.rows[j] IN
            {"High", "Low", "Close", "Volume"} \subseteq DOMAIN r =>
                /\ CellLe(r["Low"], r["Close"])
                /\ CellLe(r["Close"], r["High"])
                /\ CellLe(r["Low"], r["High"])
                /\ CellLe(Val(0), r["Volume"])

\* C10: every StockDataSchema instance has low <= high, low <= close <= high
\* and volume >= 0, after its construction and after every accepted
\* assignment of a field.
C10_SchemaInvariant ==
    sc_obj # <<>> =>
        /\ sc_obj[1].low <= sc_obj[1].high
        /\ sc_obj[1].low <= sc_obj[1].close
        /\ sc_obj[1].close <= sc_obj[1].high
        /\ sc_obj[1].volume >= 0

(***************************************************************************)
(* Properties of the series normalize_csv returns.                         *)
(***************************************************************************)
\* C11: the series normalize_csv returns holds at most one row per date
\* (of several input rows with one date only the last is kept), so that its
\* dates are strictly increasing.
C11_OneRowPerDate ==
    nz_out.tag = "DataFrame" =>
        \A i \in 1..Len(nz_out.rows), j \in 1..Len(nz_out.rows) :
            i < j => nz_out.rows[i]["Date"].v < nz_out.rows[j]["Date"].v

\* C12: the rows of the series normalize_csv returns are in ascending
\* (non-decreasing) order of Date, whatever the order of the rows of the
\* file, and they are the rows of the file that have a Date and a Close.
C12_AscendingDates ==
    nz_out.tag = "DataFrame" =>
        /\ \A i \in 1..Len(nz_out.rows), j \in 1..Len(nz_out.rows) :
              i < j => nz_out.rows[i]["Date"].v <= nz_out.rows[j]["Date"].v
        /\ Len(nz_out.rows) =
              Cardinality({j \in 1..Len(nz_file.rows) :
                              /\ nz_file.rows[j].date.v # 0
                              /\ ~nz_file.rows[j].close.null})

\* a file whose two rows come latest first, returned earliest first
C12_Witness ==
    /\ nz_pc = "done"
    /\ Len(nz_file.rows) = 2
    /\ nz_file.rows[1].date.v = 2
    /\ nz_file.rows[2].date.v = 1
    /\ nz_out.tag = "DataFrame"
    /\ Len(nz_out.rows) = 2
    /\ nz_out.rows[1]["Date"].v = 1
    /\ nz_out.rows[2]["Date"].v = 2

\* the required columns of normalize_csv
RequiredColumns == {"Date", "Open", "High", "Low", "Close", "Volume"}

\* C13: normalize_csv returns no series when a required column (Date, Open,
\* High, Low, Close, Volume) is absent after the column names are normalized
\* and mapped: a series it returns has every required column.
C13_RequiredColumnsPresent ==
    nz_out.tag = "DataFrame" =>
        RequiredColumns \subseteq {nz_out.columns[i] : i \in 1..Len(nz_out.columns)}

(***************************************************************************)
(* Properties of the checks of DataQualityChecker.                         *)
(***************************************************************************)
\* the cells of the checked frame that hold a value
NonNullCells ==
    {<<j, i>> \in (1..Len(qc_data.rows)) \X (1..Len(qc_data.columns)) :
        ~qc_data.rows[j][qc_data.columns[i]].null}

\* C14: completeness passes iff the average over all columns of the
\* per-column percentage of non-null values is at least 95, the average
\* taken as the number it is: (100 * cells with a value) / (rows * columns).
C14_PassesFromNinetyFive ==
    ("completeness" \in DOMAIN qc_report /\ Len(qc_data.rows) > 0) =>
        (qc_report["completeness"].passed <=>
            100 * Cardinality(NonNullCells)
                >= CompletenessTarget * Len(qc_data.rows) * Len(qc_data.columns))

\* the rows of the checked frame that break a rule: High below Low, Close
\* below Low or above High, Volume below zero (of values that are present)
RowsHighBelowLow ==
    {j \in 1..Len(qc_data.rows) :
        /\ ~qc_data.rows[j].High.null /\ ~qc_data.rows[j].Low.null
        /\ qc_data.rows[j].High.v < qc_data.rows[j].Low.v}

RowsCloseOutside ==
    {j \in 1..Len(qc_data.rows) :
        /\ ~qc_data.rows[j].Close.null
        /\ \/ ~qc_data.rows[j].Low.null /\ qc_data.rows[j].Close.v < qc_data.rows[j].Low.v
           \/ ~qc_data.rows[j].High.null /\ qc_data.rows[j].Close.v > qc_data.rows[j].High.v}

RowsNegativeVolume ==
    {j \in 1..Len(qc_data.rows) :
        ~qc_data.rows[j].Volume.null /\ qc_data.rows[j].Volume.v < 0}

\* check_consistency has run on a frame whose prices are all present and in
\* which one row has High below Low, no other row breaks a rule and no
\* volume is negative
C15_OneRowHighBelowLow ==
    /\ "consistency" \in DOMAIN qc_report
    /\ \A j \in 1..Len(qc_data.rows) :
          \A c \in {"Open", "High", "Low", "Close"} : ~qc_data.rows[j][c].null
    /\ Cardinality(RowsHighBelowLow) = 1
    /\ RowsCloseOutside \subseteq RowsHighBelowLow
    /\ RowsNegativeVolume = {}

\* C15 as stated: on such a frame check_consistency reports passed = False
\* and an issues list of exactly one entry, the one of the High < Low rule.
C15_OnlyHighLowIssue ==
    C15_OneRowHighBelowLow =>
        /\ qc_report["consistency"].passed = FALSE
        /\ qc_report["consistency"].issues = <<[rule |-> "High < Low", rows |-> 1]>>

\* C15, amended: on such a frame check_consistency reports passed = False
\* and an issues list of exactly two entries, the one of the High < Low rule
\* and the one of the Close rule, each counting that one row: a Close cannot
\* lie between a Low and a High below it.
C15_HighLowAndCloseIssues ==
    C15_OneRowHighBelowLow =>
        /\ qc_report["consistency"].passed = FALSE
        /\ qc_report["consistency"].issues =
              <<[rule |-> "High < Low", rows |-> 1],
                [rule |-> "Close outside [Low,High]", rows |-> 1]>>

\* the check has run on a frame of a row with High below Low and sound rows
C15_Witness ==
    /\ C15_OneRowHighBelowLow
    /\ Len(qc_data.rows) >= 3
    /\ Len(qc_calls) >= 1

\* C16: check_consistency passes iff no row breaks any of the three rules,
\* and its issues list holds, in the order of the rules, exactly one entry
\* for each rule some row breaks, with the number of rows that break it.
C16_ZeroTolerance ==
    "consistency" \in DOMAIN qc_report =>
        /\ qc_report["consistency"].passed <=>
              (RowsHighBelowLow = {} /\ RowsCloseOutside = {} /\ RowsNegativeVolume = {})
        /\ qc_report["consistency"].issues =
              (IF RowsHighBelowLow = {} THEN <<>>
               ELSE <<[rule |-> "High < Low", rows |-> Cardinality(RowsHighBelowLow)]>>)
              \o (IF RowsCloseOutside = {} THEN <<>>
                  ELSE <<[rule |-> "Close outside [Low,High]",
                          rows |-> Cardinality(RowsCloseOutside)]>>)
              \o (IF RowsNegativeVolume = {} THEN <<>>
                  ELSE <<[rule |-> "Negative volume",
                          rows |-> Cardinality(RowsNegativeVolume)]>>)

\* two rows break the Close rule and one of them the Volume rule too; the
\* check fails with one entry for each of the two rules
C16_Witness ==
    /\ "consistency" \in DOMAIN qc_report
    /\ Cardinality(RowsCloseOutside) = 2
    /\ Cardinality(RowsNegativeVolume) = 1
    /\ RowsHighBelowLow = {}
    /\ qc_report["consistency"].passed = FALSE
    /\ Len(qc_report["consistency"].issues) = 2

\* the dates of the bars of the checked frame, and the time, in half days,
\* of the last call of run_all_checks
BarDates ==
    {qc_data.rows[j].Date.v : j \in {i \in 1..Len(qc_data.rows) : ~qc_data.rows[i].Date.null}}

LastCallAt == qc_calls[Len(qc_calls)].at

\* how many half days the latest bar lies before the last call
LatestBarAge == LastCallAt - 2 * (CHOOSE d \in BarDates : \A x \in BarDates : x <= d)

RowsExtremeReturn ==
    {j \in 2..Len(qc_data.rows) :
        LET before == qc_data.rows[j - 1].Close.v
            change == qc_data.rows[j].Close.v - before
        IN 2 * (IF change < 0 THEN -change ELSE change)
              > (IF before < 0 THEN -before ELSE before)}

RowsZeroVolume ==
    {j \in 1..Len(qc_data.rows) :
        ~qc_data.rows[j].Volume.null /\ qc_data.rows[j].Volume.v = 0}

C19_OverallStatus ==
    (qc_calls # <<>> /\ ~qc_calls[Len(qc_calls)].raised) =>
        LET ret == qc_calls[Len(qc_calls)].ret
        IN /\ DOMAIN ret.checks = {"completeness", "consistency", "timeliness", "accuracy"}
           /\ ret.checks = qc_report
           /\ ret.overall_status =
                 IF /\ ret.checks["completeness"].passed
                    /\ ret.checks["consistency"].passed
                    /\ ret.checks["timeliness"].passed
                    /\ ret.checks["accuracy"].passed
                 THEN "PASS" ELSE "FAIL"

\* two calls on one checker: the first returned PASS, the second, after the
\* latest bar had become two days old, FAIL
C19_Witness ==
    /\ Len(qc_calls) = 2
    /\ ~qc_calls[1].raised
    /\ ~qc_calls[2].raised
    /\ qc_calls[1].ret.overall_status = "PASS"
    /\ qc_calls[2].ret.overall_status = "FAIL"

\* C20: the runs of run_all_checks on one series return identical reports
\* whatever the times they are made at: any two reports returned carry the
\* same verdict and the same entries of the checks (the time stamp of the
\* report left aside).
C20_SameReportAtAnyTime ==
    \A i \in 1..Len(qc_calls), j \in 1..Len(qc_calls) :
        (~qc_calls[i].raised /\ ~qc_calls[j].raised) =>
            /\ qc_calls[i].ret.overall_status = qc_calls[j].ret.overall_status
            /\ qc_calls[i].ret.checks = qc_calls[j].ret.checks

HasRowsAt(i) == ft_calls[i].kind = "frame" /\ ft_calls[i].rows > 0

\* what fetch_stock_data has done so far is within its contract: at most
\* max_retries calls of the source, none after a call that gave a frame with
\* rows; a return hands over the rows of the last call, at least one; a raise
\* is a RuntimeError after calls that gave no rows
C22_WithinRetries ==
    /\ Len(ft_calls) <= ft_max_retries
    /\ \A i \in 1..Len(ft_calls) : HasRowsAt(i) => i = Len(ft_calls)
    /\ ft_pc \in {"loop", "returned", "raised"}
    /\ ft_pc = "loop" => ft_ret = FtNothing
    /\ ft_pc = "returned" =>
          /\ ft_calls # <<>>
          /\ HasRowsAt(Len(ft_calls))
          /\ ft_ret = FtFrame(ft_calls[Len(ft_calls)].rows)
          /\ ft_ret.rows >= 1
    /\ ft_pc = "raised" =>
          /\ ft_ret.tag = "Raise"
          /\ \A i \in 1..Len(ft_calls) : ~HasRowsAt(i)

\* C22: every invocation of fetch_stock_data terminates after at most
\* max_retries calls of the source, stopping at the first call that returns
\* a non-empty frame; it ends by returning a frame of at least one row or
\* by raising RuntimeError, never by returning an empty frame, max_retries
\* = 0 included.
C22_FetchTerminates ==
    /\ []C22_WithinRetries
    /\ <>(ft_pc \in {"returned", "raised"})

\* max_retries = 3: an empty frame, an exception, then a frame of two rows,
\* which is returned
C22_Witness ==
    /\ prog = "fetch"
    /\ ft_max_retries = 3
    /\ Len(ft_calls) = 3
    /\ ft_calls[1].kind = "frame" /\ ft_calls[1].rows = 0
    /\ ft_calls[2].kind = "exception"
    /\ ft_pc = "returned"
    /\ ft_ret = FtFrame(2)

\* max_retries = 0: RuntimeError without a call of the source
C22_ZeroRetries ==
    /\ prog = "fetch"
    /\ ft_max_retries = 0
    /\ ft_pc = "raised"
    /\ ft_calls = <<>>

(***************************************************************************)
(* Properties of the rows and the ticker of normalize_csv.                 *)
(***************************************************************************)
\* the names of the columns of the file after strip/title/replace and the
\* column_map
MappedNames(file) ==
    {RenameColumn(StripTitleUnderscore(file.header[i].name)) : i \in 1..Len(file.header)}

\* the rows of the file whose date parses and whose Close is a number
GoodRows(file) ==
    {j \in 1..Len(file.rows) :
        /\ ~file.rows[j].date.null /\ file.rows[j].date.v # 0
        /\ ~file.rows[j].close.null /\ file.rows[j].close # Unparsed}

\* C23: normalize_csv drops exactly the rows whose date cannot be parsed or
\* whose Close is missing or cannot be parsed: no such row is in the output,
\* every other row of the file is, and such rows never make the
\* normalization fail.
C23_DropsExactlyBadRows ==
    (nz_pc # "idle" /\ nz_file.readable /\ {"Date", "Close"} \subseteq MappedNames(nz_file)) =>
        /\ nz_out.tag = "DataFrame"
        /\ \A i \in 1..Len(nz_out.rows) :
              /\ ~nz_out.rows[i]["Date"].null
              /\ ~nz_out.rows[i]["Close"].null
              /\ nz_out.rows[i]["Close"] # Unparsed
        /\ Len(nz_out.rows) = Cardinality(GoodRows(nz_file))

\* a file of one row whose Close is no number, and the frame returned holds
\* that row
C23_UnparsedCloseKept ==
    /\ nz_pc = "done"
    /\ Len(nz_file.rows) = 1
    /\ nz_file.rows[1].close = Unparsed
    /\ nz_out.tag = "DataFrame"
    /\ Len(nz_out.rows) = 1
    /\ nz_out.rows[1]["Close"] = Unparsed

\* r'^[A-Z]{4}\.JK$', the ticker of the exchange: four capital letters and
\* '.JK'
MatchesTickerPattern(t) ==
    /\ Len(t) = 7
    /\ \A i \in 1..4 : \E k \in 1..Len(Uppercase) : Uppercase[k] = t[i]
    /\ SubSeq(t, 5, 7) = DotJK

\* the Ticker cells of the frame come from the file's ticker column when it
\* has one and from the first '_'-separated token of the file name
\* otherwise, upper-cased, '.JK' appended unless it is there already
C24_TickerSource ==
    nz_out.tag = "DataFrame" =>
        \A i \in 1..Len(nz_out.rows) :
            IF "Ticker" \in MappedNames(nz_file)
            THEN \E j \in 1..Len(nz_file.rows) :
                    nz_out.rows[i]["Ticker"] = nz_file.rows[j].ticker
            ELSE LET token == Upper(SplitFirst(nz_file.stem, "_"))
                 IN nz_out.rows[i]["Ticker"] =
                       Val(IF EndsWith(token, DotJK) THEN token ELSE token \o DotJK)

\* C24: if the file has a ticker column its values are kept unchanged;
\* otherwise every output row gets the same ticker, the first
\* '_'-separated token of the file name, upper-cased, with '.JK' appended
\* unless already there, and that ticker matches the pattern of four letters
\* plus '.JK'.
C24_TickerHandling ==
    /\ C24_TickerSource
    /\ (nz_out.tag = "DataFrame" /\ "Ticker" \notin MappedNames(nz_file)) =>
          \A i \in 1..Len(nz_out.rows) :
              MatchesTickerPattern(nz_out.rows[i]["Ticker"].v)

\* stocks_2024.csv without a ticker column: the row's ticker is STOCKS.JK
C24_SixLetterTicker ==
    /\ nz_pc = "done"
    /\ nz_out.tag = "DataFrame"
    /\ Len(nz_out.rows) = 1
    /\ nz_out.rows[1]["Ticker"] = Val(<<"S", "T", "O", "C", "K", "S", ".", "J", "K">>)

\* goto.jk_idx.csv without a ticker column: the row's ticker is GOTO.JK
C24_SuffixNotDoubled ==
    /\ nz_pc = "done"
    /\ nz_out.tag = "DataFrame"
    /\ Len(nz_out.rows) = 1
    /\ nz_out.rows[1]["Ticker"] = Val(<<"G", "O", "T", "O", ".", "J", "K">>)

(***************************************************************************)
(* Properties of detect_csv_format.                                        *)
(***************************************************************************)
\* s.strip(' ')
Strip(s) ==
    LET inked == {i \in 1..Len(s) : s[i] # " "}
    IN IF inked = {} THEN <<>>
       ELSE SubSeq(s, CHOOSE i \in inked : \A j \in inked : i <= j,
                      CHOOSE i \in inked : \A j \in inked : j <= i)

RECURSIVE SingleSpaced(_)
\* the name with every run of spaces made one space
SingleSpaced(s) ==
    IF Len(s) < 2 THEN s
    ELSE IF s[1] = " " /\ s[2] = " " THEN SingleSpaced(Tail(s))
    ELSE <<s[1]>> \o SingleSpaced(Tail(s))

\* the column names case-folded and whitespace-normalized
Folded(columns) == [i \in 1..Len(columns) |-> SingleSpaced(Strip(Lower(columns[i])))]

\* two frames whose column names differ in letter case only get the same
\* dialect
C25_CaseInvariant ==
    (Len(dt_out) = 2
     /\ [i \in 1..Len(dt_frames[1]) |-> Lower(dt_frames[1][i])]
           = [i \in 1..Len(dt_frames[2]) |-> Lower(dt_frames[2][i])])
        => dt_out[1] = dt_out[2]

\* C25: the dialect of detect_csv_format is invariant under letter case and
\* surrounding or inner spacing of the column names: two column sets equal
\* after case-folding and whitespace normalization get the same dialect,
\* and a column set matching no fingerprint gets 'unknown'.
C25_DialectInvariant ==
    /\ (Len(dt_out) = 2 /\ Folded(dt_frames[1]) = Folded(dt_frames[2]))
          => dt_out[1] = dt_out[2]
    /\ \A k \in 1..Len(dt_out) :
          Folded(dt_frames[k]) = <<<<"t", "a", "n", "g", "g", "a", "l">>,
                                   <<"h", "a", "r", "g", "a">>>>
             => dt_out[k] = "unknown"

\* the Yahoo columns as exported and with a space around each name:
\* 'yahoo' and 'unknown'
C25_PaddedYahooUnknown ==
    /\ Len(dt_out) = 2
    /\ Folded(dt_frames[1]) = Folded(dt_frames[2])
    /\ Len(dt_frames[1]) = 7
    /\ dt_frames[1] = Folded(dt_frames[1])
    /\ dt_frames[2] = Spell(dt_frames[1], "padded")
    /\ dt_out = <<"yahoo", "unknown">>

(***************************************************************************)
(* Properties of selenium_scraper.main and of final_data_acquisition.      *)
(***************************************************************************)
\* the positions of the log at which `op` was done
SlOps(op) == {k \in 1..Len(sl_log) : sl_log[k].op = op}

\* C26: once setup_driver has succeeded, driver.quit() is called exactly
\* once on every exit path of main (normal completion or an exception while
\* scraping any ticker), no ticker is scraped after the quit, and all
\* tickers use the one session, strictly one after another in the order of
\* the list.
C26_SessionClosedOnce ==
    /\ Cardinality(SlOps("quit")) <= 1
    /\ (SlOps("setup") # {} /\ sl_pc \in {"summary", "done", "raised"})
          => Cardinality(SlOps("quit")) = 1
    /\ \A k \in SlOps("scrape") :
          /\ \A q \in SlOps("quit") : k < q
          /\ \E s \in SlOps("setup") : s < k /\ sl_log[s].session = sl_log[k].session
          /\ sl_log[k].ticker = SlStocks[Cardinality({j \in SlOps("scrape") : j <= k})]
    /\ Cardinality(SlOps("setup")) <= 1

\* the second ticker is interrupted: main ends with the exception, after
\* setup, two scrapes and one quit
C26_Witness ==
    /\ sl_pc = "raised"
    /\ sl_pending = "KeyboardInterrupt"
    /\ Len(sl_log) = 4
    /\ sl_log[2].op = "scrape" /\ sl_log[3].op = "scrape"
    /\ sl_log[4].op = "quit"
    /\ Len(sl_successful) = 1

\* C27: final_data_acquisition tries professional scraping, then Alpha
\* Vantage, then Twelve Data, in that order, until one returns data, and
\* returns (None, 'manual_required') only after all three were invoked and
\* failed.
C27_AllMethodsTried ==
    (fa_pc = "done" /\ fa_ret.method = "manual_required") =>
        \E c, a, t \in 1..Len(fa_log) :
            /\ c < a /\ a < t
            /\ fa_log[c] = "get_crumb_and_cookie"
            /\ fa_log[a] = "get_alpha_vantage_data"
            /\ fa_log[t] = "get_twelvedata"

\* no crumb on the page: manual_required after that single request
C27_ManualAfterCrumbOnly ==
    /\ fa_pc = "done"
    /\ fa_ret = [data |-> None, method |-> "manual_required"]
    /\ fa_log = <<"get_crumb_and_cookie">>

(***************************************************************************)
(* Properties of the cap of check_accuracy, of the counters of             *)
(* validate_data_pipeline and of the quality check of load_manual_csvs.    *)
(***************************************************************************)
\* C28: at most 5 extreme daily returns are acceptable: a series with 5 or
\* fewer close-to-close returns above 50% in absolute value passes
\* check_accuracy, a series with more than 5 fails.
C28_FiveExtremeAcceptable ==
    "accuracy" \in DOMAIN qc_report =>
        (qc_report["accuracy"].passed <=> qc_report["accuracy"].extreme_returns_count <= 5)

\* a frame of complete rows with exactly five extreme returns fails the
\* accuracy check
C28_FiveExtremeFails ==
    /\ "accuracy" \in DOMAIN qc_report
    /\ \A j \in 1..Len(qc_data.rows) : ~qc_data.rows[j].Close.null
    /\ Cardinality(RowsExtremeReturn) = 5
    /\ qc_report["accuracy"].extreme_returns_count = 5
    /\ ~qc_report["accuracy"].passed

\* the tickers of quality_reports whose entry is, or is not, an ERROR entry
PlReported(error) ==
    {t \in DOMAIN pl_results.quality_reports :
        (pl_results.quality_reports[t].overall_status = "ERROR") = error}

\* C29: when validate_data_pipeline returns, successful_fetches +
\* failed_fetches = stocks_tested, and every tested ticker has exactly one
\* entry in quality_reports that agrees with the counter it was counted in:
\* a QC report for a successful fetch, an ERROR entry for a failed one,
\* whatever fetches, quality checks and file saves failed.
C29_CountersAgree ==
    pl_pc = "done" =>
        /\ pl_results.successful_fetches + pl_results.failed_fetches
              = pl_results.stocks_tested
        /\ DOMAIN pl_results.quality_reports = {TEST_TICKERS[k] : k \in 1..NumTestTickers}
        /\ Cardinality(PlReported(FALSE)) = pl_results.successful_fetches
        /\ Cardinality(PlReported(TRUE)) = pl_results.failed_fetches

\* the CSV of the first ticker could not be written: it is counted as a
\* successful and as a failed fetch
C29_CountedTwice ==
    /\ pl_pc = "done"
    /\ pl_log[1] = "save_raised"
    /\ pl_log[2] = "ok"
    /\ pl_results.successful_fetches = 2
    /\ pl_results.failed_fetches = 1
    /\ pl_results.stocks_tested = 2
    /\ pl_results.quality_reports[TEST_TICKERS[1]].overall_status = "ERROR"

\* the same, as long as no CSV write fails
C29_CountersAgreeUnlessSaveFails ==
    (pl_pc = "done" /\ \A k \in 1..Len(pl_log) : pl_log[k] # "save_raised") =>
        /\ pl_results.successful_fetches + pl_results.failed_fetches
              = pl_results.stocks_tested
        /\ Cardinality(PlReported(FALSE)) = pl_results.successful_fetches
        /\ Cardinality(PlReported(TRUE)) = pl_results.failed_fetches

\* the files of the directory that normalize_csv turns into a frame with
\* rows
LmNonEmpty ==
    {i \in 1..Len(lm_files) :
        /\ NormalizeCsv(lm_files[i]).tag = "DataFrame"
        /\ Len(NormalizeCsv(lm_files[i]).rows) > 0}

\* C30: whenever at least one manual CSV normalizes to a non-empty series
\* (and the combined file could be written), load_manual_csvs runs the
\* quality check for every ticker of the combined dataset without raising,
\* reading the completeness score and the consistency verdict from the
\* report run_all_checks returns, and then returns the combined dataset.
C30_QualityCheckedAndReturned ==
    (LmNonEmpty # {} /\ lm_pc \in {"done", "raised"} /\ lm_error # "OSError") =>
        /\ lm_pc = "done"
        /\ lm_ret = lm_combined
        /\ Len(lm_qc) = Len(UniqueTickers(lm_combined.rows))
        /\ \A k \in 1..Len(lm_qc) : lm_qc[k].ended = "logged"

\* two files, each of one complete row: run_all_checks returns its report
\* for the first ticker and load_manual_csvs ends there with a KeyError
C30_KeyErrorAtFirstTicker ==
    /\ lm_pc = "raised"
    /\ lm_error = "KeyError"
    /\ Len(lm_files) = 2
    /\ Len(lm_combined.rows) = 2
    /\ Len(UniqueTickers(lm_combined.rows)) = 2
    /\ Len(lm_qc) = 1
    /\ lm_ret = Pending

\* load_manual_csvs never returns a dataset: it returns None or raises
C30_NeverReturnsDataset ==
    /\ lm_pc = "done" => lm_ret = NzNone
    /\ LmNonEmpty # {} => lm_pc # "done"

====
